---- MODULE Spec2Model ----
(***************************************************************************)
(* Model of the auth-service of studious-pancake                           *)
(* (src/services/auth-service/main.go, src/libs/domain/user/user.go).      *)
(*                                                                         *)
(* The store is the five gorm tables; a request is a record that passes    *)
(* the middleware of its route and then walks through its handler one      *)
(* store call at a time (field pc).  Every specification serves requests   *)
(* that way; they differ in the routes that are called, in whether time    *)
(* passes, and in how many requests the service has in flight together:    *)
(* one in the specifications that follow long histories of an account      *)
(* (Spec, SpecTime and the like), more in those that interleave the store  *)
(* calls of concurrent requests (SpecConc, SpecRace, SpecVerify,           *)
(* SpecFail).  Time is in seconds.                                         *)
(***************************************************************************)
EXTENDS Integers, Sequences, FiniteSets, TLC

VARIABLES users, sessions, verifs, profiles, acts, rng, users_id_seq, now,
          issued, ghost, nops, nticks, reqs, rl, rlog, mutex

vars == <<users, sessions, verifs, profiles, acts, rng, users_id_seq, now,
          issued, ghost, nops, nticks, reqs, rl, rlog, mutex>>

storeVars == <<users, sessions, verifs, profiles, acts, rng, users_id_seq>>
rlVars == <<rl, rlog, mutex>>

(***************************************************************************)
(* Bounds of the model.                                                    *)
(***************************************************************************)
MaxOps == 3
MaxTicks == 3
MaxTimeOps == 3
MaxConcOps == 2
MaxRLCalls == 5
MaxRLTicks == 1
MaxCallers == 4
MaxVerifyOps == 2
MaxFailOps == 3

(***************************************************************************)
(* Program constants (seconds).                                            *)
(***************************************************************************)
AccessTTL == 900
RefreshTTL == 604800
ResetTTL == 3600
MinPasswordLen == 8
FloatSciThreshold == 1000000

ZeroTime == 0
NoToken == 0

(***************************************************************************)
(* Inputs.  Passwords are sequences of characters so that the strength     *)
(* policy is computed character by character as the code does.             *)
(***************************************************************************)
PwStrongA == <<"A", "b", "c", "d", "e", "f", "1", "!">>
PwStrongB == <<"X", "y", "z", "a", "b", "c", "2", "#">>
PwNoUpper == <<"a", "b", "c", "d", "e", "f", "1", "!">>
PwShort == <<"A", "b", "1", "!">>
Passwords == {PwStrongA, PwStrongB, PwNoUpper, PwShort}

Emails == {"a@x.com", "A@x.com"}
IPs == {"ip1", "ip2"}
UAs == {"ua1"}
IdBases == {0, 999999}
TickSteps == {1, 3599}

UpperChars == {"A", "B", "C", "D", "E", "F", "G", "H", "I", "J", "K", "L", "M",
               "N", "O", "P", "Q", "R", "S", "T", "U", "V", "W", "X", "Y", "Z"}
LowerChars == {"a", "b", "c", "d", "e", "f", "g", "h", "i", "j", "k", "l", "m",
               "n", "o", "p", "q", "r", "s", "t", "u", "v", "w", "x", "y", "z"}
DigitChars == {"0", "1", "2", "3", "4", "5", "6", "7", "8", "9"}
SpecialChars == {"!", "@", "#", "$", "%", "^", "&", "*", "(", ")", "_", "+",
                 "-", "=", "[", "]", "{", "}", "|", ";", ":", ",", ".", "<",
                 ">", "?"}

(***************************************************************************)
(* Pure helpers.                                                           *)
(***************************************************************************)
\* strings.ToLower on the modelled addresses; the handlers never call it.
LowerEmail(e) == IF e = "A@x.com" THEN "a@x.com" ELSE e

\* validatePasswordStrength: "" when the password passes, else the message.
validatePasswordStrength(p) ==
    LET has(S) == \E i \in 1..Len(p) : p[i] \in S
    IN  IF Len(p) < MinPasswordLen
        THEN "password must be at least 8 characters long"
        ELSE IF ~has(UpperChars)
        THEN "password must contain at least one uppercase letter"
        ELSE IF ~has(LowerChars)
        THEN "password must contain at least one lowercase letter"
        ELSE IF ~has(DigitChars)
        THEN "password must contain at least one digit"
        ELSE IF ~has(SpecialChars)
        THEN "password must contain at least one special character"
        ELSE ""

\* binding:"required,min=8" on a password field.
BindPassword(p) == Len(p) >= MinPasswordLen

\* bcrypt.GenerateFromPassword / bcrypt.CompareHashAndPassword.
NoHash == <<>>
GenerateFromPassword(p) == <<"bcrypt", p>>
CompareHashAndPassword(h, p) == h = <<"bcrypt", p>>

\* fmt.Sprintf("%d", id): the decimal digits of id.
FmtD(id) == [form |-> "dec", n |-> id]

\* fmt.Sprintf("%v", x) of the float64 that the JWT "sub" claim decodes to:
\* %g in shortest form, which switches to exponent notation from 1e+06 on.
FmtV(id) == IF id < FloatSciThreshold
            THEN [form |-> "dec", n |-> id]
            ELSE [form |-> "exp", n |-> id]

\* gorm resolving a decimal string (or a number) to a primary key.
ParseKey(s) == IF s.form = "dec" THEN s.n ELSE 0

(***************************************************************************)
(* Records.  A user row carries its ID, which PostgreSQL draws from the    *)
(* sequence users_id_seq (the variable holds the value drawn last; the     *)
(* rows with a smaller ID than the first one drawn here belong to accounts *)
(* that take no part); a session's and a verification record's ID is its   *)
(* index.                                                                  *)
(***************************************************************************)
NoAccess == [sub |-> 0, email |-> "", exp |-> 0, iat |-> 0, alg |-> "", sig |-> <<>>]
NoUser == [id |-> 0, email |-> "", password |-> NoHash, isActive |-> FALSE,
           lastLogin |-> 0]
NoSession == [userID |-> FmtD(0), token |-> 0, expiresAt |-> 0, ip |-> "",
              ua |-> "", isActive |-> FALSE]
NoVerification == [userID |-> FmtD(0), emailVerified |-> FALSE, emailToken |-> 0,
                   phoneToken |-> 0, resetToken |-> 0, resetExpiry |-> 0,
                   verifiedAt |-> 0]
NoResp == [status |-> 0, error |-> "", message |-> "", access |-> NoAccess,
           refresh |-> 0, retry_after |-> 0]

ErrorResponse(status, msg) ==
    [status |-> status, error |-> msg, message |-> "", access |-> NoAccess,
     refresh |-> 0, retry_after |-> 0]
SuccessResponse(status, msg) ==
    [status |-> status, error |-> "", message |-> msg, access |-> NoAccess,
     refresh |-> 0, retry_after |-> 0]
LoginResponse(status, msg, access, refresh) ==
    [status |-> status, error |-> "", message |-> msg, access |-> access,
     refresh |-> refresh, retry_after |-> 0]

Store == [users |-> users, sessions |-> sessions, verifs |-> verifs,
          profiles |-> profiles, acts |-> acts, rng |-> rng,
          users_id_seq |-> users_id_seq]

EmptyStore(base) == [users |-> <<>>, sessions |-> <<>>, verifs |-> <<>>,
                     profiles |-> <<>>, acts |-> <<>>, rng |-> 0,
                     users_id_seq |-> base]

NewReq(op, ip, ua) ==
    [op |-> op, pc |-> "start", ip |-> ip, ua |-> ua, email |-> "",
     password |-> <<>>, token |-> 0, newpw |-> <<>>, confirm |-> <<>>,
     all |-> FALSE, bearer |-> NoAccess,
     uid |-> 0, user |-> NoUser, sid |-> 0, session |-> NoSession,
     vid |-> 0, ver |-> NoVerification, hash |-> NoHash, jwt |-> NoAccess,
     newtok |-> 0, resp |-> NoResp,
     seen |-> 0, alone |-> FALSE, failed |-> FALSE]

IdleReq == [NewReq("none", "", "") EXCEPT !.pc = "idle"]

Out(d, r) == [d |-> d, r |-> r]
Goto(r, pc) == [r EXCEPT !.pc = pc]
Reply(r, resp) == [r EXCEPT !.pc = "done", !.resp = resp]

(***************************************************************************)
(* Store calls (gorm on PostgreSQL).                                       *)
(***************************************************************************)
MinOf(S) == CHOOSE x \in S : \A y \in S : x <= y

\* First(): the matching row with the smallest primary key, 0 when none.
FirstOf(S) == IF S = {} THEN 0 ELSE MinOf(S)

UserIDs(d) == {d.users[i].id : i \in 1..Len(d.users)}
UserRow(d, id) == d.users[CHOOSE i \in 1..Len(d.users) : d.users[i].id = id]

\* db.Where("email = ?", e).First(&u): the comparison is exact.
FindUserByEmail(d, e) == FirstOf({id \in UserIDs(d) : UserRow(d, id).email = e})

\* db.First(&u, key)
FindUserByID(d, id) == IF id \in UserIDs(d) THEN id ELSE 0

\* db.Save(&u): writes every column of the caller's copy of the row.
SaveUser(d, id, row) ==
    [d EXCEPT !.users = [i \in 1..Len(d.users) |->
                            IF d.users[i].id = id THEN row ELSE d.users[i]]]

\* db.Create(&newUser): INSERT INTO users ... RETURNING id.  The ID is the
\* column default nextval('users_id_seq'), drawn before the row is checked;
\* the unique index on email rejects an equal email; a sequence is never
\* moved back, so an INSERT that is rejected or fails in the server has used
\* up the value it drew.
CreateUserOK(d, row) == \A id \in UserIDs(d) : UserRow(d, id).email # row.email
nextval(d) == d.users_id_seq + 1
CreateUser(d, row) ==
    [d EXCEPT !.users_id_seq = nextval(d),
              !.users = Append(@, [row EXCEPT !.id = nextval(d)])]
CreateUserRejected(d) == [d EXCEPT !.users_id_seq = nextval(d)]

\* db.Where("token = ? AND is_active = ?", tok, true).First(&session)
FindActiveSessionByToken(d, tok) ==
    FirstOf({i \in 1..Len(d.sessions) :
                d.sessions[i].token = tok /\ d.sessions[i].isActive})

\* db.Save(&session)
\* Mutant: the zero value of is_active is replaced by the column default.
Mut_SaveSession(d, sid, row) ==
    [d EXCEPT !.sessions[sid] = [row EXCEPT !.isActive = TRUE]]
SaveSession(d, sid, row) == [d EXCEPT !.sessions[sid] = row]

\* db.Model(&UserSession{}).Where(...).Update("is_active", false), rows being
\* the rows the WHERE clause matches.
DeactivateSessions(d, rows) ==
    [d EXCEPT !.sessions =
        [i \in 1..Len(d.sessions) |->
            IF i \in rows
            THEN [d.sessions[i] EXCEPT !.isActive = FALSE]
            ELSE d.sessions[i]]]

\* db.Where("user_id = ?", key).First(&verification)
FindVerificationByUser(d, key) ==
    FirstOf({i \in 1..Len(d.verifs) : d.verifs[i].userID = key})

\* db.Save(&verification)
SaveVerification(d, vid, row) == [d EXCEPT !.verifs[vid] = row]

\* (us *UserSession) IsSessionValid()
\* Mutant: a session is still valid at the instant of its expiry.
Mut_IsSessionValid(s, t) == s.isActive /\ t <= s.expiresAt
IsSessionValid(s, t) == s.isActive /\ t < s.expiresAt

\* The handlers' test of user.IsActive.
\* Mutant: every account passes for active.
Mut_IsActive(u) == TRUE
IsActive(u) == u.isActive

\* generateRandomToken: 32 fresh random bytes, modelled as a fresh number.
generateRandomToken(d) == d.rng + 1
Drawn(d) == [d EXCEPT !.rng = @ + 1]

\* generateJWTToken.  A token is its claims, the alg of its header and its
\* signature; SignedString(key) is the HMAC of header and claims under key,
\* which no other key, header or claims reproduce.
JWTSecret == "secret"
HMACAlgs == {"HS256", "HS384", "HS512"}
SignedString(key, alg, sub, email, exp, iat) == <<key, alg, sub, email, exp, iat>>
\* Mutant: the access token lives 24 hours.
Mut_generateJWTToken(id, u, t) ==
    [sub |-> id, email |-> u.email, exp |-> t + 24 * 3600, iat |-> t,
     alg |-> "HS256",
     sig |-> SignedString(JWTSecret, "HS256", id, u.email, t + 24 * 3600, t)]
generateJWTToken(id, u, t) ==
    [sub |-> id, email |-> u.email, exp |-> t + AccessTTL, iat |-> t,
     alg |-> "HS256",
     sig |-> SignedString(JWTSecret, "HS256", id, u.email, t + AccessTTL, t)]

\* generateRefreshToken: the session row that db.Create(session) inserts.
NewSessionRow(d, id, ip, ua, t) ==
    [userID |-> FmtD(id), token |-> generateRandomToken(d),
     expiresAt |-> t + RefreshTTL, ip |-> ip, ua |-> ua, isActive |-> TRUE]
generateRefreshToken(d, id, ip, ua, t) ==
    [Drawn(d) EXCEPT !.sessions = Append(@, NewSessionRow(d, id, ip, ua, t))]

\* logUserActivity
logUserActivity(d, id, activity) ==
    [d EXCEPT !.acts = Append(@, [userID |-> FmtD(id), activity |-> activity])]

(***************************************************************************)
(* Handlers.  H(d, t, r, ok) is one store call of handler H for request r  *)
(* on store d at time t, together with the local computation that leads    *)
(* to the next store call; ok tells whether that store call succeeds.  A   *)
(* store call that fails writes nothing; registerHandler is also told, by  *)
(* ran, whether its failing INSERT into users got as far as drawing the    *)
(* row's ID from the sequence.                                             *)
(***************************************************************************)
MsgInvalidPayload == "Invalid request payload"
MsgInvalidRefresh == "Invalid refresh token"
MsgRefreshExpired == "Refresh token expired"
MsgUserNotFound == "User not found"
MsgDeactivated == "Account is deactivated"
MsgBadCredentials == "Invalid email or password"
MsgUserExists == "User already exists with this email"
MsgCreateUserFailed == "Failed to create user"
MsgRefreshGenFailed == "Failed to generate refresh token"
MsgNewRefreshGenFailed == "Failed to generate new refresh token"
MsgForgotGeneric == "If the email exists, a password reset link has been sent"
MsgResetBadToken == "Invalid or expired reset token"
MsgResetMismatch == "Password confirmation does not match"
MsgUpdatePwFailed == "Failed to update password"
MsgBadAccessToken == "Invalid or expired token"
MsgTooMany == "Too many requests. Please try again later."

\* The WHERE clauses of the bulk updates of user_sessions.
LogoutAllMatch(s, key) == s.userID = key /\ s.isActive
\* Mutant: the session is matched by its token alone.
Mut_LogoutOneMatch(s, key, tok) == s.token = tok
LogoutOneMatch(s, key, tok) == s.token = tok /\ s.userID = key
LogoutClientMatch(s, key, ip, ua) ==
    s.userID = key /\ s.ip = ip /\ s.ua = ua /\ s.isActive
\* Mutant: the revocation filters on the wrong value of is_active.
Mut_ResetRevokeMatch(s, key) == s.userID = key /\ ~s.isActive
ResetRevokeMatch(s, key) == s.userID = key
ChangeRevokeMatch(s, key, ip) == s.userID = key /\ s.ip # ip /\ s.isActive

\* Mutant: the rotation saves the session without clearing is_active.
Mut_Retired(session) == session
\* session.IsActive = false before db.Save(&session)
Retired(session) == [session EXCEPT !.isActive = FALSE]

\* The three responses of forgotPasswordHandler.
ForgotRespNoUser == SuccessResponse(200, MsgForgotGeneric)
\* Mutant: a deactivated account is answered as login answers it.
Mut_ForgotRespInactive == ErrorResponse(401, MsgDeactivated)
ForgotRespInactive == SuccessResponse(200, MsgForgotGeneric)
ForgotRespSent == SuccessResponse(200, MsgForgotGeneric)

\* The rejections of loginHandler for an unknown email and a wrong password.
LoginRespNoUser == ErrorResponse(401, MsgBadCredentials)
\* Mutant: a wrong password is reported as such.
Mut_LoginRespWrongPassword == ErrorResponse(401, "Incorrect password")
LoginRespWrongPassword == ErrorResponse(401, MsgBadCredentials)

\* The rejections of refreshTokenHandler.
RefreshRespNotFound == ErrorResponse(401, MsgInvalidRefresh)
RefreshRespExpired == ErrorResponse(401, MsgRefreshExpired)

\* The rejection of resetPasswordHandler when no record matches the query.
ResetRespNoMatch == ErrorResponse(400, MsgResetBadToken)

\* AuthMiddleware: jwt.Parse refuses a token whose method is not an HMAC one
\* (the key function), whose signature is not the HMAC of its header and
\* claims under cfg.JWTSecret, or whose exp is not after the current time
\* (jwt/v5 validates exp with now.Before(exp)).
\* Mutant: a token is still valid at the instant of its exp.
Mut_AuthMiddleware(tok, t) ==
    /\ tok.alg \in HMACAlgs
    /\ tok.sig = SignedString(JWTSecret, tok.alg, tok.sub, tok.email, tok.exp, tok.iat)
    /\ t <= tok.exp
AuthMiddleware(tok, t) ==
    /\ tok.alg \in HMACAlgs
    /\ tok.sig = SignedString(JWTSecret, tok.alg, tok.sub, tok.email, tok.exp, tok.iat)
    /\ t < tok.exp

registerHandler(d, t, r, ok, ran) ==
    CASE r.pc = "start" ->
           IF ~BindPassword(r.password)
           THEN Out(d, Reply(r, ErrorResponse(400, MsgInvalidPayload)))
           ELSE IF validatePasswordStrength(r.password) # ""
           THEN Out(d, Reply(r, ErrorResponse(400, validatePasswordStrength(r.password))))
           ELSE IF ok /\ FindUserByEmail(d, r.email) # 0
           THEN Out(d, Reply(r, ErrorResponse(409, MsgUserExists)))
           ELSE Out(d, [Goto(r, "create_user") EXCEPT
                          !.hash = GenerateFromPassword(r.password)])
      [] r.pc = "create_user" ->
           LET row == [NoUser EXCEPT !.email = r.email, !.password = r.hash,
                                     !.isActive = TRUE, !.lastLogin = ZeroTime]
           IN  IF ok /\ CreateUserOK(d, row)
               THEN Out(CreateUser(d, row),
                        [Goto(r, "create_profile") EXCEPT
                           !.uid = nextval(d),
                           !.user = [row EXCEPT !.id = nextval(d)]])
               ELSE Out(IF ok \/ ran THEN CreateUserRejected(d) ELSE d,
                        Reply(r, ErrorResponse(500, MsgCreateUserFailed)))
      [] r.pc = "create_profile" ->
           Out(IF ok THEN [d EXCEPT !.profiles = Append(@, FmtD(r.uid))] ELSE d,
               Goto(r, "create_verification"))
      [] r.pc = "create_verification" ->
           LET row == [NoVerification EXCEPT
                         !.userID = FmtD(r.uid),
                         !.emailToken = generateRandomToken(d),
                         !.phoneToken = generateRandomToken(Drawn(d))]
               d2 == Drawn(Drawn(d))
           \* db.Create(&verification): its error is not looked at, and the
           \* unique index on user_id rejects a second record of the user
           IN  Out(IF ok /\ FindVerificationByUser(d, FmtD(r.uid)) = 0
                   THEN [d2 EXCEPT !.verifs = Append(@, row)] ELSE d2,
                   [Goto(r, "create_session") EXCEPT !.ver = row])
      [] r.pc = "create_session" ->
           IF ~ok
           THEN Out(Drawn(d), Reply(r, ErrorResponse(500, MsgRefreshGenFailed)))
           ELSE Out(generateRefreshToken(d, r.uid, r.ip, r.ua, t),
                    [Goto(r, "log") EXCEPT
                       !.jwt = generateJWTToken(r.uid, r.user, t),
                       !.newtok = generateRandomToken(d)])
      [] r.pc = "log" ->
           Out(IF ok THEN logUserActivity(d, r.uid, "register") ELSE d,
               Reply(r, LoginResponse(201, "User registered successfully",
                                      r.jwt, r.newtok)))

loginHandler(d, t, r, ok) ==
    CASE r.pc = "start" ->
           LET id == IF ok THEN FindUserByEmail(d, r.email) ELSE 0
           IN  IF ~BindPassword(r.password)
               THEN Out(d, Reply(r, ErrorResponse(400, MsgInvalidPayload)))
               ELSE IF id = 0
               THEN Out(d, Reply(r, LoginRespNoUser))
               ELSE IF ~IsActive(UserRow(d, id))
               THEN Out(d, Reply(r, ErrorResponse(401, MsgDeactivated)))
               ELSE IF ~CompareHashAndPassword(UserRow(d, id).password, r.password)
               THEN Out(d, Reply(r, LoginRespWrongPassword))
               ELSE Out(d, [Goto(r, "create_session") EXCEPT
                              !.uid = id, !.user = UserRow(d, id),
                              !.jwt = generateJWTToken(id, UserRow(d, id), t)])
      [] r.pc = "create_session" ->
           IF ~ok
           THEN Out(Drawn(d), Reply(r, ErrorResponse(500, MsgRefreshGenFailed)))
           ELSE Out(generateRefreshToken(d, r.uid, r.ip, r.ua, t),
                    [Goto(r, "save_user") EXCEPT !.newtok = generateRandomToken(d)])
      [] r.pc = "save_user" ->
           LET row == [r.user EXCEPT !.lastLogin = t]
           IN  Out(IF ok THEN SaveUser(d, r.uid, row) ELSE d,
                   [Goto(r, "log") EXCEPT !.user = row])
      [] r.pc = "log" ->
           Out(IF ok THEN logUserActivity(d, r.uid, "login") ELSE d,
               Reply(r, LoginResponse(200, "Login successful", r.jwt, r.newtok)))

refreshTokenHandler(d, t, r, ok) ==
    CASE r.pc = "start" ->
           LET sid == IF ok THEN FindActiveSessionByToken(d, r.token) ELSE 0
           IN  IF r.token = NoToken
               THEN Out(d, Reply(r, ErrorResponse(400, MsgInvalidPayload)))
               ELSE IF sid = 0
               THEN Out(d, Reply(r, RefreshRespNotFound))
               ELSE IF ~IsSessionValid(d.sessions[sid], t)
               THEN Out(d, [Goto(r, "expire_save") EXCEPT
                              !.sid = sid, !.session = d.sessions[sid]])
               ELSE Out(d, [Goto(r, "find_user") EXCEPT
                              !.sid = sid, !.session = d.sessions[sid]])
      [] r.pc = "expire_save" ->
           LET row == Retired(r.session)
           IN  Out(IF ok THEN SaveSession(d, r.sid, row) ELSE d,
                   [Reply(r, RefreshRespExpired) EXCEPT
                      !.session = row])
      [] r.pc = "find_user" ->
           LET id == IF ok THEN FindUserByID(d, ParseKey(r.session.userID)) ELSE 0
           IN  IF id = 0
               THEN Out(d, Reply(r, ErrorResponse(404, MsgUserNotFound)))
               ELSE IF ~IsActive(UserRow(d, id))
               THEN Out(d, Reply(r, ErrorResponse(401, MsgDeactivated)))
               ELSE Out(d, [Goto(r, "rotate_save") EXCEPT
                              !.uid = id, !.user = UserRow(d, id),
                              !.jwt = generateJWTToken(id, UserRow(d, id), t)])
      [] r.pc = "rotate_save" ->
           LET row == Retired(r.session)
           IN  Out(IF ok THEN SaveSession(d, r.sid, row) ELSE d,
                   [Goto(r, "create_session") EXCEPT !.session = row])
      [] r.pc = "create_session" ->
           IF ~ok
           THEN Out(Drawn(d), Reply(r, ErrorResponse(500, MsgNewRefreshGenFailed)))
           ELSE Out(generateRefreshToken(d, r.uid, r.ip, r.ua, t),
                    [Goto(r, "log") EXCEPT !.newtok = generateRandomToken(d)])
      [] r.pc = "log" ->
           Out(IF ok THEN logUserActivity(d, r.uid, "token_refresh") ELSE d,
               Reply(r, LoginResponse(200, "Token refreshed successfully",
                                      r.jwt, r.newtok)))

logoutHandler(d, t, r, ok) ==
    CASE r.pc = "start" ->
           LET key == FmtV(r.bearer.sub)
               rows == 1..Len(d.sessions)
               matchAll == {i \in rows : LogoutAllMatch(d.sessions[i], key)}
               matchOne == {i \in rows : LogoutOneMatch(d.sessions[i], key, r.token)}
               matchClient == {i \in rows :
                                 LogoutClientMatch(d.sessions[i], key, r.ip, r.ua)}
           IN  IF ~ok
               THEN Out(d, Goto(r, "log"))
               ELSE IF r.all
               THEN Out(DeactivateSessions(d, matchAll), Goto(r, "log"))
               ELSE IF r.token # NoToken
               THEN Out(DeactivateSessions(d, matchOne), Goto(r, "log"))
               ELSE Out(DeactivateSessions(d, matchClient), Goto(r, "log"))
      [] r.pc = "log" ->
           \* strconv.ParseUint succeeds on decimal digits only
           Out(IF ok /\ FmtV(r.bearer.sub).form = "dec"
               THEN logUserActivity(d, r.bearer.sub, "logout") ELSE d,
               Reply(r, SuccessResponse(200, "Logout successful")))

\* db.Where("password_reset_token = ? AND password_reset_expiry > ?", tok, now)
FindVerificationByResetToken(d, tok, t) ==
    FirstOf({i \in 1..Len(d.verifs) :
                d.verifs[i].resetToken = tok /\ d.verifs[i].resetExpiry > t})

\* Mutant: the query has lost its condition and takes the first record.
Mut_FindVerificationByEmailToken(d, tok) ==
    FirstOf({i \in 1..Len(d.verifs) : TRUE})
\* db.Where("email_token = ?", tok).First(&verification)
FindVerificationByEmailToken(d, tok) ==
    FirstOf({i \in 1..Len(d.verifs) : d.verifs[i].emailToken = tok})

\* Mutant: the new reset token goes into a further record of the user.
Mut_UpdateResetToken(d, key, tok, expiry) ==
    [d EXCEPT !.verifs =
        Append(@, [NoVerification EXCEPT !.userID = key, !.resetToken = tok,
                                         !.resetExpiry = expiry])]
\* db.Model(&verification).Where("user_id = ?", key).Updates(reset token, expiry)
UpdateResetToken(d, key, tok, expiry) ==
    [d EXCEPT !.verifs =
        [i \in 1..Len(d.verifs) |->
            IF d.verifs[i].userID = key
            THEN [d.verifs[i] EXCEPT !.resetToken = tok, !.resetExpiry = expiry]
            ELSE d.verifs[i]]]

\* Mutant: the reset token lives 24 hours.
Mut_ResetExpiry(t) == t + 24 * 3600
\* time.Now().Add(1 * time.Hour)
ResetExpiry(t) == t + ResetTTL

forgotPasswordHandler(d, t, r, ok) ==
    CASE r.pc = "start" ->
           LET id == IF ok THEN FindUserByEmail(d, r.email) ELSE 0
           IN  IF id = 0
               THEN Out(d, Reply(r, ForgotRespNoUser))
               ELSE IF ~IsActive(UserRow(d, id))
               THEN Out(d, Reply(r, ForgotRespInactive))
               ELSE Out(Drawn(d),
                        [Goto(r, "update_verification") EXCEPT
                           !.uid = id, !.user = UserRow(d, id),
                           !.newtok = generateRandomToken(d),
                           !.ver = [NoVerification EXCEPT
                                      !.userID = FmtD(id),
                                      !.resetToken = generateRandomToken(d),
                                      !.resetExpiry = ResetExpiry(t)]])
      [] r.pc = "update_verification" ->
           IF ok /\ FindVerificationByUser(d, r.ver.userID) # 0
           THEN Out(UpdateResetToken(d, r.ver.userID, r.ver.resetToken,
                                     r.ver.resetExpiry),
                    Goto(r, "log"))
           ELSE Out(d, Goto(r, "create_verification"))
      [] r.pc = "create_verification" ->
           \* the unique index on user_id rejects a second record of the user
           Out(IF ok /\ FindVerificationByUser(d, r.ver.userID) = 0
               THEN [d EXCEPT !.verifs = Append(@, r.ver)] ELSE d,
               Goto(r, "log"))
      [] r.pc = "log" ->
           Out(IF ok THEN logUserActivity(d, r.uid, "password_reset_requested") ELSE d,
               Reply(r, ForgotRespSent))

resetPasswordHandler(d, t, r, ok) ==
    CASE r.pc = "start" ->
           LET vid == IF ok THEN FindVerificationByResetToken(d, r.token, t) ELSE 0
           IN  IF r.token = NoToken \/ ~BindPassword(r.newpw) \/ ~BindPassword(r.confirm)
               THEN Out(d, Reply(r, ErrorResponse(400, MsgInvalidPayload)))
               ELSE IF r.newpw # r.confirm
               THEN Out(d, Reply(r, ErrorResponse(400, MsgResetMismatch)))
               ELSE IF vid = 0
               THEN Out(d, Reply(r, ResetRespNoMatch))
               ELSE Out(d, [Goto(r, "find_user") EXCEPT
                              !.vid = vid, !.ver = d.verifs[vid]])
      [] r.pc = "find_user" ->
           LET id == IF ok THEN FindUserByID(d, ParseKey(r.ver.userID)) ELSE 0
           IN  IF id = 0
               THEN Out(d, Reply(r, ErrorResponse(404, MsgUserNotFound)))
               ELSE Out(d, [Goto(r, "save_user") EXCEPT
                              !.uid = id, !.user = UserRow(d, id),
                              !.hash = GenerateFromPassword(r.newpw)])
      [] r.pc = "save_user" ->
           LET row == [r.user EXCEPT !.password = r.hash]
           IN  IF ~ok
               THEN Out(d, Reply(r, ErrorResponse(500, MsgUpdatePwFailed)))
               ELSE Out(SaveUser(d, r.uid, row),
                        [Goto(r, "clear_token") EXCEPT !.user = row])
      [] r.pc = "clear_token" ->
           LET row == [r.ver EXCEPT !.resetToken = NoToken, !.resetExpiry = ZeroTime]
           IN  Out(IF ok THEN SaveVerification(d, r.vid, row) ELSE d,
                   [Goto(r, "revoke") EXCEPT !.ver = row])
      [] r.pc = "revoke" ->
           LET matchUser == {i \in 1..Len(d.sessions) :
                               ResetRevokeMatch(d.sessions[i], r.ver.userID)}
           IN  Out(IF ok THEN DeactivateSessions(d, matchUser) ELSE d,
                   Goto(r, "log"))
      [] r.pc = "log" ->
           Out(IF ok THEN logUserActivity(d, r.uid, "password_reset_completed") ELSE d,
               Reply(r, SuccessResponse(200, "Password reset successfully")))

changePasswordHandler(d, t, r, ok) ==
    CASE r.pc = "start" ->
           LET id == IF ok THEN FindUserByID(d, r.bearer.sub) ELSE 0
           IN  IF r.password = <<>> \/ ~BindPassword(r.newpw)
               THEN Out(d, Reply(r, ErrorResponse(400, MsgInvalidPayload)))
               ELSE IF id = 0
               THEN Out(d, Reply(r, ErrorResponse(404, MsgUserNotFound)))
               ELSE IF ~CompareHashAndPassword(UserRow(d, id).password, r.password)
               THEN Out(d, Reply(r, ErrorResponse(400, "Current password is incorrect")))
               ELSE Out(d, [Goto(r, "save_user") EXCEPT
                              !.uid = id, !.user = UserRow(d, id),
                              !.hash = GenerateFromPassword(r.newpw)])
      [] r.pc = "save_user" ->
           LET row == [r.user EXCEPT !.password = r.hash]
           IN  IF ~ok
               THEN Out(d, Reply(r, ErrorResponse(500, MsgUpdatePwFailed)))
               ELSE Out(SaveUser(d, r.uid, row),
                        [Goto(r, "revoke") EXCEPT !.user = row])
      [] r.pc = "revoke" ->
           LET key == FmtV(r.bearer.sub)
               matchOther == {i \in 1..Len(d.sessions) :
                                ChangeRevokeMatch(d.sessions[i], key, r.ip)}
           IN  Out(IF ok THEN DeactivateSessions(d, matchOther) ELSE d,
                   Goto(r, "log"))
      [] r.pc = "log" ->
           Out(IF ok /\ FmtV(r.bearer.sub).form = "dec"
               THEN logUserActivity(d, r.bearer.sub, "password_changed") ELSE d,
               Reply(r, SuccessResponse(200, "Password changed successfully")))

MsgEmailVerified == "Email verified successfully"

verifyEmailHandler(d, t, r, ok) ==
    CASE r.pc = "start" ->
           LET vid == IF ok THEN FindVerificationByEmailToken(d, r.token) ELSE 0
           IN  IF r.token = NoToken
               THEN Out(d, Reply(r, ErrorResponse(400, "Email verification token is required")))
               ELSE IF vid = 0
               THEN Out(d, Reply(r, ErrorResponse(400, "Invalid email verification token")))
               ELSE IF d.verifs[vid].emailVerified
               THEN Out(d, Reply(r, SuccessResponse(200, "Email is already verified")))
               ELSE Out(d, [Goto(r, "find_user") EXCEPT
                              !.vid = vid, !.ver = d.verifs[vid]])
      [] r.pc = "find_user" ->
           LET id == IF ok THEN FindUserByID(d, ParseKey(r.ver.userID)) ELSE 0
           IN  IF id = 0
               THEN Out(d, Reply(r, ErrorResponse(404, MsgUserNotFound)))
               ELSE Out(d, [Goto(r, "save_verification") EXCEPT
                              !.uid = id, !.user = UserRow(d, id)])
      [] r.pc = "save_verification" ->
           LET row == [r.ver EXCEPT !.emailVerified = TRUE, !.verifiedAt = t,
                                    !.emailToken = NoToken]
           IN  IF ~ok
               THEN Out(d, Reply(r, ErrorResponse(500, "Failed to update verification status")))
               ELSE Out(SaveVerification(d, r.vid, row),
                        [Goto(r, "log") EXCEPT !.ver = row])
      [] r.pc = "log" ->
           Out(IF ok THEN logUserActivity(d, r.uid, "email_verified") ELSE d,
               Reply(r, SuccessResponse(200, MsgEmailVerified)))

MsgResendGeneric ==
    "If the email exists and is not verified, a verification email has been sent"

resendVerificationHandler(d, t, r, ok) ==
    CASE r.pc = "start" ->
           LET id == IF ok THEN FindUserByEmail(d, r.email) ELSE 0
           IN  IF id = 0
               THEN Out(d, Reply(r, SuccessResponse(200, MsgResendGeneric)))
               ELSE Out(d, [Goto(r, "find_verification") EXCEPT
                              !.uid = id, !.user = UserRow(d, id)])
      [] r.pc = "find_verification" ->
           LET vid == IF ok THEN FindVerificationByUser(d, FmtD(r.uid)) ELSE 0
           IN  IF vid = 0
               THEN Out(d, Reply(r, SuccessResponse(200, MsgResendGeneric)))
               ELSE IF d.verifs[vid].emailVerified
               THEN Out(d, Reply(r, SuccessResponse(200, "Email is already verified")))
               ELSE Out(Drawn(d),
                        [Goto(r, "save_verification") EXCEPT
                           !.vid = vid, !.newtok = generateRandomToken(d),
                           !.ver = [d.verifs[vid] EXCEPT
                                      !.emailToken = generateRandomToken(d)]])
      [] r.pc = "save_verification" ->
           Out(IF ok THEN SaveVerification(d, r.vid, r.ver) ELSE d, Goto(r, "log"))
      [] r.pc = "log" ->
           Out(IF ok THEN logUserActivity(d, r.uid, "verification_email_resent") ELSE d,
               Reply(r, SuccessResponse(200, MsgResendGeneric)))

\* healthHandler answers 200 without a store call.
healthHandler(d, t, r, ok) ==
    Out(d, Reply(r, SuccessResponse(200, "healthy")))

\* getPumpkin, the handler of GET /, answers 200 without a store call.
getPumpkin(d, t, r, ok) ==
    Out(d, Reply(r, SuccessResponse(200, "Hey, Welcome to Pumpkin Auth Service")))

\* profileHandler: db.First(&user, userID) with the sub claim that
\* AuthMiddleware put into the context; the user row is the data of the
\* response.
profileHandler(d, t, r, ok) ==
    LET id == IF ok THEN FindUserByID(d, r.bearer.sub) ELSE 0
    IN  IF id = 0
        THEN Out(d, Reply(r, ErrorResponse(404, MsgUserNotFound)))
        ELSE Out(d, Reply([r EXCEPT !.uid = id, !.user = UserRow(d, id)],
                          SuccessResponse(200, "")))

\* One store call of whichever handler the route of r names.
Step(d, t, r, ok, ran) ==
    CASE r.op = "register" -> registerHandler(d, t, r, ok, ran)
      [] r.op = "login" -> loginHandler(d, t, r, ok)
      [] r.op = "refresh" -> refreshTokenHandler(d, t, r, ok)
      [] r.op = "logout" -> logoutHandler(d, t, r, ok)
      [] r.op = "forgot" -> forgotPasswordHandler(d, t, r, ok)
      [] r.op = "reset" -> resetPasswordHandler(d, t, r, ok)
      [] r.op = "change" -> changePasswordHandler(d, t, r, ok)
      [] r.op = "verify" -> verifyEmailHandler(d, t, r, ok)
      [] r.op = "resend" -> resendVerificationHandler(d, t, r, ok)
      [] r.op = "health" -> healthHandler(d, t, r, ok)
      [] r.op = "profile" -> profileHandler(d, t, r, ok)
      [] r.op = "pumpkin" -> getPumpkin(d, t, r, ok)

\* A handler run from its first store call to its response, every store call
\* succeeding and no other request in between.
RECURSIVE Run(_, _, _)
Run(d, t, r) ==
    IF r.pc = "done" THEN Out(d, r)
    ELSE LET x == Step(d, t, r, TRUE, TRUE) IN Run(x.d, t, x.r)

(***************************************************************************)
(* The rate limiter (main.go:31-69) and the middleware in front of the     *)
(* handlers (main.go:93-118).  rl is RateLimiter.requests: per client IP   *)
(* the times of the requests it admitted, whatever their route.            *)
(***************************************************************************)
\* The routes that main() registers: GET / ("pumpkin"), the public group,
\* where "verify" is POST and GET /verify-email, and the protected group.
Routes == {"pumpkin", "register", "login", "refresh", "forgot", "reset",
           "verify", "resend", "health", "profile", "logout", "change"}
\* The routes of the group that runs AuthMiddleware (main.go:113-118).
ProtectedRoutes == {"profile", "logout", "change"}
\* The routes registered with RateLimitMiddleware; GET /, GET /health and
\* GET /profile are registered without it (main.go:93, 109, 116).
LimitedRoutes == {"register", "login", "refresh", "forgot", "reset", "verify",
                  "resend", "logout", "change"}

\* RateLimitMiddleware(limit, window) as registered in main().
RouteLimit(route) ==
    CASE route = "register" -> 5
      [] route = "login" -> 5
      [] route = "refresh" -> 10
      [] route = "forgot" -> 3
      [] route = "reset" -> 5
      [] route = "verify" -> 10
      [] route = "resend" -> 3
      [] route = "logout" -> 10
      [] route = "change" -> 3
RouteWindow(route) ==
    CASE route = "register" -> 600
      [] route = "login" -> 900
      [] route = "refresh" -> 300
      [] route = "forgot" -> 3600
      [] route = "reset" -> 600
      [] route = "verify" -> 300
      [] route = "resend" -> 600
      [] route = "logout" -> 300
      [] route = "change" -> 600

\* The loop of IsAllowed that keeps the timestamps after windowStart.
\* Mutant: the loop keeps every timestamp.
Mut_PruneTimes(times, window, t) ==
    LET After(x) == TRUE
    IN  SelectSeq(times, After)
PruneTimes(times, window, t) ==
    LET After(x) == x > t - window
    IN  SelectSeq(times, After)

\* RateLimiter.IsAllowed, the whole critical section.
\* Mutant: a denied request is recorded too.
Mut_IsAllowed(m, ip, limit, window, t) ==
    LET validTimes == PruneTimes(m[ip], window, t)
    IN  [allowed |-> Len(validTimes) < limit,
         m |-> [m EXCEPT ![ip] = Append(validTimes, t)]]
IsAllowed(m, ip, limit, window, t) ==
    LET validTimes == PruneTimes(m[ip], window, t)
    IN  IF Len(validTimes) >= limit
        THEN [allowed |-> FALSE, m |-> [m EXCEPT ![ip] = validTimes]]
        ELSE [allowed |-> TRUE, m |-> [m EXCEPT ![ip] = Append(validTimes, t)]]

TooManyRequests(window) ==
    [ErrorResponse(429, MsgTooMany) EXCEPT !.retry_after = window]

\* RateLimitMiddleware(limit, window): c.Next() when IsAllowed admits the
\* client IP, else 429 with retry_after = int(window.Seconds()) and
\* c.Abort().
\* Mutant: the middleware lets a denied request through to the handler.
Mut_RateLimitMiddleware(m, ip, limit, window, t) ==
    LET x == IsAllowed(m, ip, limit, window, t)
    IN  [next |-> TRUE, m |-> x.m,
         resp |-> IF x.allowed THEN NoResp ELSE TooManyRequests(window)]
RateLimitMiddleware(m, ip, limit, window, t) ==
    LET x == IsAllowed(m, ip, limit, window, t)
    IN  [next |-> x.allowed, m |-> x.m,
         resp |-> IF x.allowed THEN NoResp ELSE TooManyRequests(window)]

\* The middleware chain of the route of request r, on limiter map m at time
\* t: the protected group runs AuthMiddleware first (main.go:113-118), then
\* the routes registered with it run RateLimitMiddleware.  A middleware
\* that aborts answers the request; else r goes on to its handler.
Admit(m, t, r) ==
    IF r.op \in ProtectedRoutes /\ ~AuthMiddleware(r.bearer, t)
    THEN [m |-> m, r |-> Reply(r, ErrorResponse(401, MsgBadAccessToken))]
    ELSE IF r.op \notin LimitedRoutes
    THEN [m |-> m, r |-> r]
    ELSE LET g == RateLimitMiddleware(m, r.ip, RouteLimit(r.op),
                                      RouteWindow(r.op), t)
         IN  [m |-> g.m, r |-> IF g.next THEN r ELSE Reply(r, g.resp)]

\* Request r served from its middleware to its response with no other
\* request in between and every store call succeeding.
Handle(m, d, t, r) ==
    LET a == Admit(m, t, r)
        x == Run(d, t, a.r)
    IN  [m |-> a.m, d |-> x.d, r |-> x.r]

(***************************************************************************)
(* Requests in flight.  reqs holds the requests being served and the last  *)
(* ones answered; a request arrives through its middleware chain and then  *)
(* advances one store call at a time, the store calls of the requests in   *)
(* flight interleaving freely (the handlers use no transaction).           *)
(*   issued : the access tokens handed to clients so far                   *)
(*   ghost  : history kept for stating the properties, never read by a     *)
(*            handler; ghost.just is the last request answered 200 or 201  *)
(*            that was served with no other request in flight, no change   *)
(*            by the operator and no time passing meanwhile, as long as    *)
(*            the store has not changed since; ghost.keep tells whether    *)
(*            answered requests stay in reqs for inspection                *)
(*   nops   : the requests that have arrived                               *)
(*   rlog   : when switched on, what the middleware decided for the        *)
(*            requests to rate-limited routes, in order                    *)
(***************************************************************************)
MaxInFlight == 2

SessionTokens(d) == {d.sessions[i].token : i \in 1..Len(d.sessions)}
TokensOf(d, key, onlyActive) ==
    {d.sessions[i].token : i \in {j \in 1..Len(d.sessions) :
        d.sessions[j].userID = key /\ (onlyActive => d.sessions[j].isActive)}}
\* The tokens of the sessions of user key among the first n sessions.
TokensUpTo(d, key, n) ==
    {d.sessions[i].token : i \in {j \in 1..n : d.sessions[j].userID = key}}

NoJust == [op |-> "none", email |-> "", password |-> <<>>, token |-> 0,
           newtok |-> 0]
NoGhost == [resetRevoked |-> {}, logoutRevoked |-> {}, rotated |-> {},
            resetIssued |-> {}, superseded |-> {}, verifiedBy |-> {},
            just |-> NoJust, keep |-> FALSE]
\* The history of a run in which the answered requests stay in reqs.
KeepGhost == [NoGhost EXCEPT !.keep = TRUE]
NoLog == [on |-> FALSE, entries |-> <<>>]

\* What one step of a request adds to the history: r is the request before
\* the step and q after it, d the store before the step, changed tells
\* whether the step changed the store, t is the time.  A reset token counts
\* as issued when forgot-password draws it, and as superseded once a later
\* forgot-password of the same user, served alone, has been answered; the
\* sessions a reset or a logout_all revokes are those of the user that
\* existed when the request arrived.
GhostAfter(g, d, r, q, changed, t) ==
    LET answered == q.pc = "done"
    IN  [resetRevoked |->
            IF answered /\ q.op = "reset" /\ q.resp.status = 200
            THEN g.resetRevoked \cup TokensUpTo(d, FmtD(q.uid), q.seen)
            ELSE g.resetRevoked,
         logoutRevoked |->
            IF answered /\ q.op = "logout" /\ q.all /\ q.resp.status = 200
            THEN g.logoutRevoked \cup TokensUpTo(d, FmtD(q.bearer.sub), q.seen)
            ELSE g.logoutRevoked,
         rotated |->
            IF answered /\ q.op = "refresh" /\ q.resp.status = 200
            THEN g.rotated \cup {q.token}
            ELSE g.rotated,
         resetIssued |->
            IF q.op = "forgot" /\ r.pc = "start" /\ q.newtok # NoToken
            THEN g.resetIssued \cup {[token |-> q.newtok, at |-> t, uid |-> q.uid]}
            ELSE g.resetIssued,
         superseded |->
            IF answered /\ q.op = "forgot" /\ q.newtok # NoToken /\ q.alone
            THEN g.superseded \cup
                    {i.token : i \in {j \in g.resetIssued :
                                        j.uid = q.uid /\ j.token # q.newtok}}
            ELSE g.superseded,
         verifiedBy |->
            IF answered /\ q.op = "verify" /\ q.resp.message = MsgEmailVerified
            THEN g.verifiedBy \cup {q.token}
            ELSE g.verifiedBy,
         just |->
            IF answered /\ q.resp.status \in {200, 201} /\ q.alone
            THEN [op |-> q.op, email |-> q.email, password |-> q.password,
                  token |-> q.token, newtok |-> q.newtok]
            ELSE IF changed THEN NoJust
            ELSE g.just,
         keep |-> g.keep]

\* An answered request leaves reqs, unless the run keeps the answered
\* requests in their places until a later request takes them.
Answer(q) == IF q.pc = "done" /\ ~ghost.keep THEN IdleReq ELSE q

SetStore(d) ==
    /\ users' = d.users
    /\ sessions' = d.sessions
    /\ verifs' = d.verifs
    /\ profiles' = d.profiles
    /\ acts' = d.acts
    /\ rng' = d.rng
    /\ users_id_seq' = d.users_id_seq

Free(i) == reqs[i].pc \in {"idle", "done"}
Quiet == \A i \in DOMAIN reqs : Free(i)
\* The requests in flight, marked as not served alone: something else
\* happens while they are served.
Disturbed ==
    [j \in DOMAIN reqs |->
        IF Free(j) THEN reqs[j] ELSE [reqs[j] EXCEPT !.alone = FALSE]]

\* The entry of the log for a request to a route registered with
\* RateLimitMiddleware that has just passed, or was answered by, its
\* middleware chain.
Logged(l, q, t) ==
    IF l.on /\ q.op \in LimitedRoutes
    THEN [l EXCEPT !.entries =
             Append(@, [route |-> q.op, ip |-> q.ip, at |-> t,
                        status |-> q.resp.status,
                        retry_after |-> q.resp.retry_after,
                        ran |-> q.pc # "done"])]
    ELSE l

\* Request r arrives (gin starts a goroutine for it) and runs the middleware
\* of its route; it takes the first place of reqs that is free.
Arrive(i, r) ==
    /\ Free(i)
    /\ \A j \in DOMAIN reqs : j < i => ~Free(j)
    /\ LET a == Admit(rl, now, r)
           q == [a.r EXCEPT !.seen = Len(sessions), !.alone = Quiet]
       IN  /\ reqs' = [Disturbed EXCEPT ![i] = Answer(q)]
           /\ rl' = a.m
           /\ rlog' = Logged(rlog, q, now)
    /\ nops' = nops + 1
    /\ UNCHANGED <<users, sessions, verifs, profiles, acts, rng, users_id_seq, now,
                   issued, ghost, nticks, mutex>>

Accept(r) == \E i \in DOMAIN reqs : Arrive(i, r)

\* The request in place i performs its next store call, which succeeds or
\* fails as ok tells (ran: the failing statement was run by the server), and
\* the computation up to the call after it or to its response.
AdvanceWith(i, ok, ran) ==
    /\ ~Free(i)
    /\ LET x == Step(Store, now, reqs[i], ok, ran)
           q == IF ok THEN x.r ELSE [x.r EXCEPT !.failed = TRUE]
       IN  /\ SetStore(x.d)
           /\ reqs' = [reqs EXCEPT ![i] = Answer(q)]
           /\ issued' = IF q.pc = "done" /\ q.resp.access # NoAccess
                        THEN issued \cup {q.resp.access} ELSE issued
           /\ ghost' = GhostAfter(ghost, Store, reqs[i], q, x.d # Store, now)
    /\ UNCHANGED <<now, nops, nticks, rl, rlog, mutex>>

Advance(i) == AdvanceWith(i, TRUE, TRUE)

\* Some request in flight goes on.
Work == \E i \in DOMAIN reqs : Advance(i)

RegisterReq(e, p, ip, ua) ==
    [NewReq("register", ip, ua) EXCEPT !.email = e, !.password = p]
LoginReq(e, p, ip, ua) == [NewReq("login", ip, ua) EXCEPT !.email = e, !.password = p]
RefreshReq(tok, ip, ua) == [NewReq("refresh", ip, ua) EXCEPT !.token = tok]
LogoutReq(bearer, tok, all, ip, ua) ==
    [NewReq("logout", ip, ua) EXCEPT !.bearer = bearer, !.token = tok, !.all = all]
ForgotReq(e, ip, ua) == [NewReq("forgot", ip, ua) EXCEPT !.email = e]
ResetReq(tok, p, ip, ua) ==
    [NewReq("reset", ip, ua) EXCEPT !.token = tok, !.newpw = p, !.confirm = p]
ChangeReq(bearer, cur, new, ip, ua) ==
    [NewReq("change", ip, ua) EXCEPT
       !.bearer = bearer, !.password = cur, !.newpw = new]
VerifyReq(tok, ip, ua) == [NewReq("verify", ip, ua) EXCEPT !.token = tok]
ProfileReq(bearer, ip, ua) == [NewReq("profile", ip, ua) EXCEPT !.bearer = bearer]
ResendReq(e, ip, ua) == [NewReq("resend", ip, ua) EXCEPT !.email = e]
UnregisteredEmail == "ghost@x.com"

\* The arrival of a request at each route.
Register(e, p, ip, ua) == Accept(RegisterReq(e, p, ip, ua))

Login(e, p, ip, ua) == Accept(LoginReq(e, p, ip, ua))

Refresh(tok, ip, ua) == Accept(RefreshReq(tok, ip, ua))

Logout(bearer, tok, all, ip, ua) == Accept(LogoutReq(bearer, tok, all, ip, ua))

ForgotPassword(e, ip, ua) == Accept(ForgotReq(e, ip, ua))

ResetPassword(tok, p, c, ip, ua) ==
    Accept([ResetReq(tok, p, ip, ua) EXCEPT !.confirm = c])

\* An operator of the platform clears is_active on a user row (user.go:18);
\* no handler of this service does.
Deactivate(id) ==
    /\ id \in UserIDs(Store)
    /\ UserRow(Store, id).isActive
    /\ users' = SaveUser(Store, id, [UserRow(Store, id) EXCEPT !.isActive = FALSE]).users
    /\ ghost' = [ghost EXCEPT !.just = NoJust]
    /\ reqs' = Disturbed
    /\ nops' = nops + 1
    /\ UNCHANGED <<sessions, verifs, profiles, acts, rng, users_id_seq, now, issued,
                   nticks, rl, rlog, mutex>>

\* Wall-clock time passes: dt seconds between two readings of time.Now().
\* A request is served within seconds, so the clock moves by more than a
\* second only while no request is in flight.
Elapse(dt) ==
    /\ Quiet \/ dt = 1
    /\ now' = now + dt
    /\ nticks' = nticks + 1
    /\ ghost' = [ghost EXCEPT !.just = NoJust]
    /\ reqs' = Disturbed
    /\ UNCHANGED <<users, sessions, verifs, profiles, acts, rng, users_id_seq, issued,
                   nops, rl, rlog, mutex>>

Tick(dt) ==
    /\ nticks < MaxTicks
    /\ Elapse(dt)

InitStore(bases) ==
    /\ users_id_seq \in bases
    /\ users = <<>>
    /\ sessions = <<>>
    /\ verifs = <<>>
    /\ profiles = <<>>
    /\ acts = <<>>
    /\ rng = 0

\* The service starts with no request in flight, workers goroutines at
\* most serving at a time, history g and log l.
InitRest(workers, g, l) ==
    /\ now = 1
    /\ issued = {}
    /\ ghost = g
    /\ nops = 0
    /\ nticks = 0
    /\ reqs = [i \in 1..workers |-> IdleReq]
    /\ rl = [ip \in IPs |-> <<>>]
    /\ rlog = l
    /\ mutex = 0

BogusToken == -1
RefreshInputs == {NoToken, BogusToken} \cup SessionTokens(Store)
ResetTokens == {t.token : t \in ghost.resetIssued}
ResetInputs == {BogusToken} \cup ResetTokens
RegisterPasswords == {PwStrongA, PwNoUpper, PwShort}
LoginPasswords == {PwStrongA, PwStrongB}
NewPasswords == {PwStrongB, PwNoUpper}

(***************************************************************************)
(* Spec: every route of the account life cycle, all within one second.     *)
(***************************************************************************)
DoRegister ==
    /\ nops < MaxOps
    /\ \E e \in Emails, p \in RegisterPasswords, ip \in IPs, ua \in UAs :
          Register(e, p, ip, ua)
DoLogin ==
    /\ nops < MaxOps
    /\ \E e \in Emails, p \in LoginPasswords, ip \in IPs, ua \in UAs :
          Login(e, p, ip, ua)
DoRefresh ==
    /\ nops < MaxOps
    /\ \E tok \in RefreshInputs, ip \in IPs, ua \in UAs : Refresh(tok, ip, ua)
DoLogout ==
    /\ nops < MaxOps
    /\ \E b \in issued, tok \in {NoToken} \cup SessionTokens(Store),
          all \in BOOLEAN, ip \in IPs, ua \in UAs : Logout(b, tok, all, ip, ua)
DoForgotPassword ==
    /\ nops < MaxOps
    /\ \E e \in Emails, ip \in IPs, ua \in UAs : ForgotPassword(e, ip, ua)
DoResetPassword ==
    /\ nops < MaxOps
    /\ \E tok \in ResetInputs, p \in NewPasswords, c \in NewPasswords,
          ip \in IPs, ua \in UAs : ResetPassword(tok, p, c, ip, ua)
DoDeactivate ==
    /\ nops < MaxOps
    /\ \E id \in UserIDs(Store) : Deactivate(id)

Init == InitStore({0}) /\ InitRest(1, NoGhost, NoLog)

Next ==
    \/ DoRegister
    \/ DoLogin
    \/ DoRefresh
    \/ DoLogout
    \/ DoForgotPassword
    \/ DoResetPassword
    \/ DoDeactivate
    \/ Work

Spec == Init /\ [][Next]_vars

(***************************************************************************)
(* SpecIDs: the same requests on a store whose next user ID is either 1 or *)
(* 1000000 (the user table of a long-running deployment).                  *)
(***************************************************************************)
InitIDs == InitStore(IdBases) /\ InitRest(1, NoGhost, NoLog)

SpecIDs == InitIDs /\ [][Next]_vars

(***************************************************************************)
(* Properties of single requests.  Try(r) is what the service would answer *)
(* to request r, and leave in the store and in the limiter, if r arrived   *)
(* in the current state and was served with no other request advancing     *)
(* meanwhile; Denied tells that the rate limiter answered it.              *)
(***************************************************************************)
Try(r) == Handle(rl, Store, now, r)
Denied(x) == x.r.resp.status = 429

SessionOfToken(tok) == CHOOSE i \in 1..Len(sessions) : sessions[i].token = tok

\* A refresh with tok is refused now, by the handler or by the rate limiter
\* before it: no 200, no token pair, no session created or changed.
RefreshRefused(tok) ==
    \A ip \in IPs, ua \in UAs :
        LET x == Try(RefreshReq(tok, ip, ua))
        IN  /\ x.r.resp.status # 200
            /\ x.r.resp.refresh = NoToken
            /\ x.r.resp.access = NoAccess
            /\ x.d.sessions = sessions

\* C2: once reset-password has succeeded for a user, a refresh with any
\* refresh token issued to that user before the reset is refused and creates
\* no session, whatever was served in between.
C2_ResetRevokesEveryToken ==
    \A tok \in ghost.resetRevoked :
        /\ ~sessions[SessionOfToken(tok)].isActive
        /\ RefreshRefused(tok)

\* A reset has succeeded for a user who held tokens issued from two devices.
C2_Witness ==
    \E t1, t2 \in ghost.resetRevoked :
        /\ sessions[SessionOfToken(t1)].ip # sessions[SessionOfToken(t2)].ip
        /\ sessions[SessionOfToken(t1)].userID = sessions[SessionOfToken(t2)].userID
        /\ RefreshRefused(t1)

\* The three kinds of address forgot-password can be given.
ProbeEmails == Emails \cup {UnregisteredEmail}
IsActiveEmail(e) ==
    FindUserByEmail(Store, e) # 0 /\ UserRow(Store, FindUserByEmail(Store, e)).isActive
IsDeactivatedEmail(e) ==
    FindUserByEmail(Store, e) # 0 /\ ~UserRow(Store, FindUserByEmail(Store, e)).isActive

\* C5: forgot-password answers every address alike (registered and active,
\* registered and deactivated, unregistered): 200 with one message, or 429
\* for all of them when the client has used up its rate limit; a request
\* that reaches the handler stores a reset token and its expiry exactly when
\* the address belongs to an active user, and the store is unchanged
\* otherwise.
C5_ForgotPasswordUniform ==
    \A e1 \in ProbeEmails, ip \in IPs, ua \in UAs :
        LET x == Try(ForgotReq(e1, ip, ua))
            id == FindUserByEmail(Store, e1)
        IN  /\ x.r.resp = Try(ForgotReq(UnregisteredEmail, ip, ua)).r.resp
            /\ x.r.resp.status \in {200, 429}
            /\ IF IsActiveEmail(e1) /\ ~Denied(x)
               THEN \E i \in 1..Len(x.d.verifs) :
                       /\ x.d.verifs[i].userID = FmtD(id)
                       /\ x.d.verifs[i].resetToken = x.r.newtok
                       /\ x.d.verifs[i].resetToken # NoToken
                       /\ x.d.verifs[i].resetToken \notin ResetTokens
                       /\ x.d.verifs[i].resetExpiry = now + 3600
               ELSE x.d = Store

\* An active, a deactivated and an unregistered address exist side by side.
C5_Witness ==
    /\ \E e \in ProbeEmails : IsActiveEmail(e)
    /\ \E e \in ProbeEmails : IsDeactivatedEmail(e)
    /\ FindUserByEmail(Store, UnregisteredEmail) = 0

\* C7: right after a successful registration, a login with the same email
\* and password that the rate limiter admits answers 200, creates one new
\* active session that expires 7 days after the login, and returns an access
\* token that expires 15 minutes after the login.
C7_LoginAfterRegister ==
    ghost.just.op = "register" =>
        \A ip \in IPs, ua \in UAs :
            LET x == Try(LoginReq(ghost.just.email, ghost.just.password, ip, ua))
                n == Len(sessions)
            IN  Denied(x) \/
                /\ x.r.resp.status = 200
                /\ Len(x.d.sessions) = n + 1
                /\ SubSeq(x.d.sessions, 1, n) = sessions
                /\ x.d.sessions[n + 1].isActive
                /\ x.d.sessions[n + 1].token = x.r.resp.refresh
                /\ x.d.sessions[n + 1].token \notin SessionTokens(Store)
                /\ x.d.sessions[n + 1].userID =
                      FmtD(FindUserByEmail(Store, ghost.just.email))
                /\ x.d.sessions[n + 1].expiresAt = now + 7 * 24 * 3600
                /\ x.r.resp.access.exp = now + 15 * 60
                /\ x.r.resp.access.iat = now
                /\ x.r.resp.access.sub = FindUserByEmail(Store, ghost.just.email)

\* A registration has just succeeded while another account already exists.
C7_Witness ==
    /\ ghost.just.op = "register"
    /\ Len(users) = 2
    /\ Try(LoginReq(ghost.just.email, ghost.just.password, "ip2", "ua1")).r.resp.status = 200

\* C9: once a refresh with token T has succeeded, T's session is inactive
\* and every later refresh with T is refused and creates no session; the
\* token returned by the refresh is accepted by the next refresh (unless the
\* rate limiter answers it).
C9_RotatedTokenRefused ==
    /\ \A tok \in ghost.rotated :
          /\ ~sessions[SessionOfToken(tok)].isActive
          /\ RefreshRefused(tok)
    /\ ghost.just.op = "refresh" =>
          \A ip \in IPs, ua \in UAs :
              Try(RefreshReq(ghost.just.newtok, ip, ua)).r.resp.status \in {200, 429}

\* A refresh has just succeeded: its token is refused, the new one accepted.
C9_Witness ==
    /\ ghost.just.op = "refresh"
    /\ ghost.just.token \in ghost.rotated
    /\ RefreshRefused(ghost.just.token)
    /\ Try(RefreshReq(ghost.just.newtok, "ip1", "ua1")).r.resp.status = 200

\* C16: login answers an unknown email and a wrong password of an active
\* user alike, with 401 "Invalid email or password" when the request is
\* well-formed and passes the rate limiter; neither creates a session,
\* returns a token or changes the store.
C16_LoginFailureUniform ==
    \A p \in Passwords :
        LET n == Try(LoginReq(UnregisteredEmail, p, "ip1", "ua1"))
        IN  \A e \in Emails :
                (/\ IsActiveEmail(e)
                 /\ ~CompareHashAndPassword(
                        UserRow(Store, FindUserByEmail(Store, e)).password, p))
                => LET w == Try(LoginReq(e, p, "ip1", "ua1"))
                   IN  /\ w.r.resp = n.r.resp
                       /\ w.r.resp.status \in {400, 401, 429}
                       /\ BindPassword(p) /\ ~Denied(w) =>
                              /\ w.r.resp.status = 401
                              /\ w.r.resp.error = "Invalid email or password"
                       /\ w.r.resp.access = NoAccess /\ w.r.resp.refresh = NoToken
                       /\ w.d = Store /\ n.d = Store

\* An active user exists whose password was changed by a reset, and a login
\* with the old password is refused.
C16_Witness ==
    \E e \in Emails :
        /\ IsActiveEmail(e)
        /\ ghost.resetRevoked # {}
        /\ Try(LoginReq(e, PwStrongA, "ip1", "ua1")).r.resp.status = 401
        /\ Try(LoginReq(UnregisteredEmail, PwStrongA, "ip1", "ua1")).r.resp.status = 401

\* C8: once a logout with logout_all has completed for a user, every session
\* of that user that was active before it is inactive, and a refresh with any
\* of those refresh tokens is refused.
C8_LogoutAllRevokes ==
    \A tok \in ghost.logoutRevoked :
        /\ ~sessions[SessionOfToken(tok)].isActive
        /\ RefreshRefused(tok)

\* C20: once a logout with logout_all has completed for a user, the refresh
\* tokens the user held are refused, and so is every access token issued to
\* the user before the logout: AuthMiddleware rejects it and a request to
\* the protected logout route that bears it is answered 401.
C20_LogoutEndsAuthentication ==
    \A tok \in ghost.logoutRevoked :
        /\ RefreshRefused(tok)
        /\ \A b \in issued :
              FmtD(b.sub) = sessions[SessionOfToken(tok)].userID =>
                  /\ ~AuthMiddleware(b, now)
                  /\ Try(LogoutReq(b, NoToken, TRUE, "ip1", "ua1")).r.resp.status
                        \in {401, 429}

\* The sessions of store d after the rows in hit have been deactivated.
WithDeactivated(hit) ==
    [i \in 1..Len(sessions) |->
        IF i \in hit THEN [sessions[i] EXCEPT !.isActive = FALSE] ELSE sessions[i]]

\* C26: a logout without logout_all that names a refresh token deactivates
\* the session with that token if the caller owns it and leaves every other
\* session as it was; one that names no token deactivates the caller's
\* active sessions created from the caller's IP and user agent and leaves
\* every other session as it was; both answer 200, also when no session
\* matched.
C26_LogoutTargeted ==
    \A b \in issued, ip \in IPs, ua \in UAs :
        LET owned == {i \in 1..Len(sessions) : sessions[i].userID = FmtD(b.sub)}
        IN  /\ \A tok \in SessionTokens(Store) \cup {BogusToken} :
                  LET x == Try(LogoutReq(b, tok, FALSE, ip, ua))
                  IN  Denied(x) \/
                      /\ x.r.resp.status = 200
                      /\ x.d.sessions =
                            WithDeactivated({i \in owned : sessions[i].token = tok})
            /\ LET x == Try(LogoutReq(b, NoToken, FALSE, ip, ua))
               IN  Denied(x) \/
                   /\ x.r.resp.status = 200
                   /\ x.d.sessions =
                         WithDeactivated({i \in owned :
                            /\ sessions[i].isActive
                            /\ sessions[i].ip = ip /\ sessions[i].ua = ua})

(***************************************************************************)
(* SpecTime: one client and one account, while time passes.                *)
(***************************************************************************)
TimeEmail == "a@x.com"
TimeIP == "ip1"
TimeUA == "ua1"

TRegister ==
    /\ nops < MaxTimeOps
    /\ Register(TimeEmail, PwStrongA, TimeIP, TimeUA)
TRefresh ==
    /\ nops < MaxTimeOps
    /\ \E tok \in SessionTokens(Store) : Refresh(tok, TimeIP, TimeUA)
TForgotPassword ==
    /\ nops < MaxTimeOps
    /\ ForgotPassword(TimeEmail, TimeIP, TimeUA)
TResetPassword ==
    /\ nops < MaxTimeOps
    /\ \E tok \in ResetInputs : ResetPassword(tok, PwStrongB, PwStrongB, TimeIP, TimeUA)
TTick == \E dt \in TickSteps : Tick(dt)

NextTime ==
    \/ TRegister
    \/ TRefresh
    \/ TForgotPassword
    \/ TResetPassword
    \/ TTick
    \/ Work

SpecTime == Init /\ [][NextTime]_vars

\* The reset tokens that a verification record still holds.
Outstanding == {t \in ghost.resetIssued :
                  \E i \in 1..Len(verifs) : verifs[i].resetToken = t.token}
ResetOutcome(tok) == Try(ResetReq(tok, PwStrongB, TimeIP, TimeUA))

\* C6 (as stated): a reset token issued at t expires at t + 1 hour; a reset
\* with it succeeds one second before the expiry and one second after the
\* expiry it fails with an error that differs from the error for a token
\* that matches no record.
C6_ExpiredDistinctFromInvalid ==
    \A t \in Outstanding :
        /\ now = t.at + 3600 - 1 => ResetOutcome(t.token).r.resp.status = 200
        /\ now = t.at + 3600 + 1 =>
              /\ ResetOutcome(t.token).r.resp.status # 200
              /\ ResetOutcome(t.token).r.resp # ResetOutcome(BogusToken).r.resp

\* C6 (amended): a reset token issued at t is stored with expiry t + 1 hour;
\* a reset with it succeeds at every time before the expiry, sets the new
\* password and clears the token; from the expiry on it fails, changes
\* nothing, and the answer is the one given for a token that matches no
\* record (400, "Invalid or expired reset token").
C6_ResetTokenExpiry ==
    \A t \in Outstanding :
        LET x == ResetOutcome(t.token)
            i == CHOOSE j \in 1..Len(verifs) : verifs[j].resetToken = t.token
        IN  /\ verifs[i].resetExpiry = t.at + 3600
            /\ IF now < t.at + 3600
               THEN /\ x.r.resp.status = 200
                    /\ x.d.verifs[i].resetToken = NoToken
                    /\ CompareHashAndPassword(
                          UserRow(x.d, ParseKey(verifs[i].userID)).password,
                          PwStrongB)
               ELSE /\ x.r.resp = ResetOutcome(BogusToken).r.resp
                    /\ x.r.resp.status = 400
                    /\ x.r.resp.error = "Invalid or expired reset token"
                    /\ x.d = Store

\* A reset token is tried one second after its expiry and is refused.
C6_Witness ==
    \E t \in Outstanding :
        /\ now = t.at + 3600 + 1
        /\ ResetOutcome(t.token).r.resp.status = 400

\* The reset tokens that a later forgot-password of the account replaced.
Superseded == {t \in ghost.resetIssued : t.token \in ghost.superseded}

\* C24: a user has one verification record and it holds at most one reset
\* token: once forgot-password has issued a new reset token, no record holds
\* the token issued before, and a reset-password with the old token fails
\* (400) and changes nothing, also while the old token's own hour has not
\* run out.
C24_OneOutstandingResetToken ==
    /\ \A i, j \in 1..Len(verifs) : verifs[i].userID = verifs[j].userID => i = j
    /\ Cardinality(Outstanding) <= 1
    /\ \A t \in Superseded :
          /\ t \notin Outstanding
          /\ ResetOutcome(t.token).r.resp.status = 400
          /\ ResetOutcome(t.token).r.resp.error = "Invalid or expired reset token"
          /\ ResetOutcome(t.token).d = Store

\* A second forgot-password has just been answered while the token of the
\* first is less than an hour old.
C24_Witness ==
    /\ ghost.just.op = "forgot"
    /\ \E t \in Superseded : now < t.at + ResetTTL
    /\ Cardinality(Outstanding) = 1

\* The active sessions whose lifetime has run out.
NaturallyExpired ==
    {sessions[i].token : i \in {j \in 1..Len(sessions) :
        sessions[j].isActive /\ now >= sessions[j].expiresAt}}
RefreshOutcome(tok) == Try(RefreshReq(tok, TimeIP, TimeUA))

\* C10: a refresh with an already rotated token is answered "Refresh token
\* expired", the answer given for a naturally expired token.
C10_RotatedReportedExpired ==
    \A tok \in ghost.rotated :
        RefreshOutcome(tok).r.resp.error = MsgRefreshExpired

\* The modelled addresses that differ from e in letter casing at most.
CaseVariants(e) == {f \in Emails : LowerEmail(f) = LowerEmail(e)}
\* C4: once an email is registered, a registration with that email in any
\* letter casing is answered 409 and creates no user record.
C4_DuplicateEmailRejected ==
    \A i \in 1..Len(users) : \A e \in CaseVariants(users[i].email) :
        LET x == Try(RegisterReq(e, PwStrongA, "ip1", "ua1"))
        IN  /\ x.r.resp.status \in {409, 429}
            /\ x.d.users = users

(***************************************************************************)
(* SpecConc: concurrent requests.  One account has registered and asked    *)
(* for a password reset; refreshes, registrations, requests for a reset    *)
(* and resets then arrive side by side and their store calls interleave in *)
(* every order.                                                            *)
(***************************************************************************)
Slots == DOMAIN reqs
FounderReq == RegisterReq("a@x.com", PwStrongA, "ip1", "ua1")
Founded == Handle([ip \in IPs |-> <<>>], EmptyStore(0), 1, FounderReq)
FoundedReset == Handle(Founded.m, Founded.d, 1, ForgotReq("a@x.com", "ip1", "ua1"))

InitConc ==
    /\ users_id_seq = FoundedReset.d.users_id_seq
    /\ users = FoundedReset.d.users
    /\ sessions = FoundedReset.d.sessions
    /\ verifs = FoundedReset.d.verifs
    /\ profiles = FoundedReset.d.profiles
    /\ acts = FoundedReset.d.acts
    /\ rng = FoundedReset.d.rng
    /\ now = 1
    /\ issued = {Founded.r.resp.access}
    /\ ghost = KeepGhost
    /\ nops = 0
    /\ nticks = 0
    /\ reqs = [i \in 1..MaxInFlight |-> IdleReq]
    /\ rl = FoundedReset.m
    /\ rlog = NoLog
    /\ mutex = 0

ArriveRefresh ==
    /\ nops < MaxConcOps
    /\ \E tok \in SessionTokens(Founded.d), ip \in IPs : Refresh(tok, ip, "ua1")
ArriveRegister ==
    /\ nops < MaxConcOps
    /\ \E e \in Emails : Register(e, PwStrongA, "ip1", "ua1")
ArriveReset ==
    /\ nops < MaxConcOps
    /\ \E p \in {PwStrongA, PwStrongB} :
          ResetPassword(FoundedReset.r.newtok, p, p, "ip1", "ua1")
ArriveForgot ==
    /\ nops < MaxConcOps
    /\ \E e \in Emails : ForgotPassword(e, "ip2", "ua1")

NextConc ==
    \/ ArriveRefresh
    \/ ArriveRegister
    \/ ArriveReset
    \/ ArriveForgot
    \/ Work

SpecConc == InitConc /\ [][NextConc]_vars

\* C1: two concurrent refresh requests carrying the same valid refresh token
\* never both succeed; no two sessions are issued from one token.
C1_NeverTwoSuccesses ==
    \A i, j \in Slots :
        (/\ i # j
         /\ reqs[i].op = "refresh" /\ reqs[j].op = "refresh"
         /\ reqs[i].token = reqs[j].token
         /\ reqs[i].pc = "done" /\ reqs[j].pc = "done")
        => ~(reqs[i].resp.status = 200 /\ reqs[j].resp.status = 200)

\* C13: a password-reset token is single-use: of the reset-password requests
\* that carry one token, in any interleaving, at most one succeeds.
C13_ResetTokenSingleUse ==
    \A i, j \in Slots :
        (/\ i # j
         /\ reqs[i].op = "reset" /\ reqs[j].op = "reset"
         /\ reqs[i].token = reqs[j].token
         /\ reqs[i].pc = "done" /\ reqs[j].pc = "done")
        => ~(reqs[i].resp.status = 200 /\ reqs[j].resp.status = 200)

(***************************************************************************)
(* SpecRL: the rate limiter in front of three routes.  Two clients send    *)
(* requests that their handlers answer after one lookup (a password reset  *)
(* or a verification mail for an address nobody registered, a refresh with *)
(* an unknown token) while time passes; rlog records the decisions of the  *)
(* middleware.                                                             *)
(***************************************************************************)
RLRoutes == {"forgot", "refresh", "resend"}
RLClients == {"ip1", "ip2"}
RLTickSteps == {1, 300, 3300}

EmptyLog == [on |-> TRUE, entries |-> <<>>]

InitRL == InitStore({0}) /\ InitRest(1, NoGhost, EmptyLog)

\* A request to a route that its handler answers after one lookup.
Probe(ip, route) ==
    CASE route = "forgot" -> ForgotReq(UnregisteredEmail, ip, "ua1")
      [] route = "refresh" -> RefreshReq(BogusToken, ip, "ua1")
      [] route = "resend" -> ResendReq(UnregisteredEmail, ip, "ua1")

\* A client sends a request to a route behind RateLimitMiddleware.
RateLimited(ip, route) ==
    /\ nops < MaxRLCalls
    /\ Accept(Probe(ip, route))

RLTick(dt) ==
    /\ nticks < MaxRLTicks
    /\ Elapse(dt)

NextRL ==
    \/ \E ip \in RLClients, route \in RLRoutes : RateLimited(ip, route)
    \/ \E dt \in RLTickSteps : RLTick(dt)
    \/ Work

SpecRL == InitRL /\ [][NextRL]_vars

\* The times at which the middleware let a request of ip through to the
\* handler of route, in order.
AdmittedTimes(ip, route) ==
    LET hit == SelectSeq(rlog.entries,
                         LAMBDA e : e.ip = ip /\ e.route = route /\ e.ran)
    IN  [k \in 1..Len(hit) |-> hit[k].at]

\* The admitted requests of ip to route in the window that ends at time t.
AdmittedIn(ip, route, t) ==
    Len(SelectSeq(AdmittedTimes(ip, route),
                  LAMBDA x : x > t - RouteWindow(route) /\ x <= t))

\* C3: for every identity and route, at most limit requests are admitted
\* within any interval of the route's window length, whatever other routes
\* the identity calls.
C3_AtMostLimitPerWindow ==
    \A ip \in RLClients, route \in RLRoutes :
        \A k \in 1..Len(AdmittedTimes(ip, route)) :
            AdmittedIn(ip, route, AdmittedTimes(ip, route)[k]) <= RouteLimit(route)

\* C11: every route has its own sliding window per identity: a request is
\* admitted exactly when fewer than the route's limit of the identity's
\* requests to that same route were admitted within the route's window,
\* whatever the identity sent to other routes.
C11_IndependentWindows ==
    \A ip \in RLClients, route \in RLRoutes :
        IsAllowed(rl, ip, RouteLimit(route), RouteWindow(route), now).allowed
            <=> AdmittedIn(ip, route, now) < RouteLimit(route)

\* n consecutive calls of IsAllowed for ip on route at time t, starting from
\* the map m: the map afterwards and the number of calls admitted.
RECURSIVE Burst(_, _, _, _, _)
Burst(m, ip, route, t, n) ==
    IF n = 0 THEN [m |-> m, admitted |-> 0]
    ELSE LET x == IsAllowed(m, ip, RouteLimit(route), RouteWindow(route), t)
             rest == Burst(x.m, ip, route, t, n - 1)
         IN  [m |-> rest.m,
              admitted |-> rest.admitted + (IF x.allowed THEN 1 ELSE 0)]

\* The mapping of routes to limits and windows (seconds) as documented.
DocumentedRoutes == {"register", "login", "forgot", "reset", "resend",
                     "refresh", "logout", "change"}
DocumentedLimit(route) ==
    CASE route \in {"register", "login", "reset"} -> 5
      [] route \in {"forgot", "resend"} -> 3
      [] route \in {"refresh", "logout", "change"} -> 10
DocumentedWindow(route) ==
    CASE route \in {"register", "reset", "resend"} -> 600
      [] route = "login" -> 900
      [] route = "forgot" -> 3600
      [] route \in {"refresh", "logout", "change"} -> 300

\* C19: every route applies its documented limit and window: an identity
\* with no recorded request gets exactly the documented number of requests
\* admitted out of a burst, stays denied until one second before the
\* documented window has passed, and is admitted again once it has passed.
C19_FixedMapping ==
    \A ip \in RLClients, route \in DocumentedRoutes :
        rl[ip] = <<>> =>
            LET b == Burst(rl, ip, route, now, DocumentedLimit(route) + 1)
                w == DocumentedWindow(route)
            IN  /\ b.admitted = DocumentedLimit(route)
                /\ ~IsAllowed(b.m, ip, RouteLimit(route), RouteWindow(route),
                              now + w - 1).allowed
                /\ IsAllowed(b.m, ip, RouteLimit(route), RouteWindow(route),
                             now + w).allowed

(***************************************************************************)
(* SpecMutex: concurrent calls of IsAllowed.  Each caller of reqs walks    *)
(* through the statements of IsAllowed; mutex is RateLimiter.mutex, 0 when *)
(* free and else the caller that holds it.  All calls happen within one    *)
(* second, on windows that start empty.                                    *)
(***************************************************************************)
Callers == 1..MaxCallers
MutexRoute == "forgot"
IdleCaller == [pc |-> "idle", ip |-> "", allowed |-> FALSE]

\* Mutant: Lock returns although another caller holds the mutex.
Mut_MutexFree(m) == TRUE
\* rl.mutex.Lock() returns once no caller holds the mutex.
MutexFree(m) == m = 0

InitMutex ==
    /\ InitStore({0})
    /\ now = 1
    /\ issued = {}
    /\ ghost = NoGhost
    /\ nops = 0
    /\ nticks = 0
    /\ reqs = [i \in Callers |-> IdleCaller]
    /\ rl = [ip \in IPs |-> <<>>]
    /\ rlog = NoLog
    /\ mutex = 0

MutexFrame ==
    UNCHANGED <<users, sessions, verifs, profiles, acts, rng, users_id_seq, now,
                issued, ghost, nops, nticks>>

\* RateLimitMiddleware calls authRateLimiter.IsAllowed(clientIP, limit, window).
CallIsAllowed(i) ==
    /\ reqs[i].pc = "idle"
    /\ \E ip \in RLClients :
          reqs' = [reqs EXCEPT ![i] = [pc |-> "lock", ip |-> ip, allowed |-> FALSE]]
    /\ UNCHANGED <<rl, rlog, mutex>>
    /\ MutexFrame

\* rl.mutex.Lock()
Lock(i) ==
    /\ reqs[i].pc = "lock"
    /\ MutexFree(mutex)
    /\ mutex' = i
    /\ reqs' = [reqs EXCEPT ![i].pc = "prune"]
    /\ UNCHANGED <<rl, rlog>>
    /\ MutexFrame

\* Clean old requests: rl.requests[ip] = validTimes
Prune(i) ==
    /\ reqs[i].pc = "prune"
    /\ rl' = [rl EXCEPT ![reqs[i].ip] =
                 PruneTimes(@, RouteWindow(MutexRoute), now)]
    /\ reqs' = [reqs EXCEPT ![i].pc = "check"]
    /\ UNCHANGED <<rlog, mutex>>
    /\ MutexFrame

\* if len(rl.requests[ip]) >= limit { return false }
CheckLimit(i) ==
    /\ reqs[i].pc = "check"
    /\ reqs' = [reqs EXCEPT ![i].pc =
                   IF Len(rl[reqs[i].ip]) >= RouteLimit(MutexRoute)
                   THEN "unlock" ELSE "append"]
    /\ UNCHANGED <<rl, rlog, mutex>>
    /\ MutexFrame

\* rl.requests[ip] = append(rl.requests[ip], now); return true
AppendNow(i) ==
    /\ reqs[i].pc = "append"
    /\ rl' = [rl EXCEPT ![reqs[i].ip] = Append(@, now)]
    /\ reqs' = [reqs EXCEPT ![i].pc = "unlock", ![i].allowed = TRUE]
    /\ UNCHANGED <<rlog, mutex>>
    /\ MutexFrame

\* defer rl.mutex.Unlock()
Unlock(i) ==
    /\ reqs[i].pc = "unlock"
    /\ mutex' = 0
    /\ reqs' = [reqs EXCEPT ![i].pc = "done"]
    /\ UNCHANGED <<rl, rlog>>
    /\ MutexFrame

NextMutex ==
    \/ \E i \in Callers : CallIsAllowed(i)
    \/ \E i \in Callers : Lock(i)
    \/ \E i \in Callers : Prune(i)
    \/ \E i \in Callers : CheckLimit(i)
    \/ \E i \in Callers : AppendNow(i)
    \/ \E i \in Callers : Unlock(i)

SpecMutex == InitMutex /\ [][NextMutex]_vars

CallersOf(ip) == {i \in Callers : reqs[i].pc # "idle" /\ reqs[i].ip = ip}
AdmittedCallers(ip) == {i \in CallersOf(ip) : reqs[i].allowed}
InCritical == {i \in Callers : reqs[i].pc \in {"prune", "check", "append", "unlock"}}
AllReturned == \A i \in Callers : reqs[i].pc = "done"
MinNat(a, b) == IF a <= b THEN a ELSE b

\* C12: IsAllowed runs under mutual exclusion: at most one caller is between
\* Lock and Unlock, never more than limit callers of an identity are admitted
\* or timestamps recorded, and when N concurrent calls of an identity on an
\* empty window have all returned, exactly min(N, limit) were admitted and
\* exactly that many timestamps are recorded.
C12_MutualExclusion ==
    /\ Cardinality(InCritical) <= 1
    /\ \A ip \in RLClients :
          /\ Cardinality(AdmittedCallers(ip)) <= 3
          /\ Len(rl[ip]) <= 3
          /\ AllReturned =>
                /\ Cardinality(AdmittedCallers(ip)) =
                      MinNat(Cardinality(CallersOf(ip)), 3)
                /\ Len(rl[ip]) = MinNat(Cardinality(CallersOf(ip)), 3)

\* More callers than the limit have called for one identity and all returned.
C12_Witness ==
    /\ AllReturned
    /\ \E ip \in RLClients :
          /\ Cardinality(CallersOf(ip)) > 3
          /\ Cardinality(AdmittedCallers(ip)) = 3

(***************************************************************************)
(* SpecVerify: registration and email verification.  ghost.verifiedBy      *)
(* holds the tokens that have verified a record.                           *)
(***************************************************************************)
VerifyEmail(tok, ip, ua) == Accept(VerifyReq(tok, ip, ua))
ResendVerification(e, ip, ua) == Accept(ResendReq(e, ip, ua))

EmailTokens == {verifs[i].emailToken : i \in 1..Len(verifs)}
VerifyInputs == {NoToken, BogusToken} \cup EmailTokens \cup ghost.verifiedBy

VRegister ==
    /\ nops < MaxVerifyOps
    /\ \E e \in Emails : Register(e, PwStrongA, "ip1", "ua1")
VVerifyEmail ==
    /\ nops < MaxVerifyOps
    /\ \E tok \in VerifyInputs : VerifyEmail(tok, "ip1", "ua1")
VResendVerification ==
    /\ nops < MaxVerifyOps
    /\ \E e \in ProbeEmails : ResendVerification(e, "ip1", "ua1")

NextVerify ==
    \/ VRegister
    \/ VVerifyEmail
    \/ VResendVerification
    \/ Work

InitVerify == InitStore({0}) /\ InitRest(MaxInFlight, NoGhost, NoLog)

SpecVerify == InitVerify /\ [][NextVerify]_vars

\* C14: verify-email with a token that has already verified its record
\* answers success and changes nothing; a token that matches no record is
\* refused with 400.
C14_VerifyIdempotent ==
    /\ \A tok \in ghost.verifiedBy :
          LET x == Try(VerifyReq(tok, "ip1", "ua1"))
          IN  /\ x.r.resp.status \in {200, 429}
              /\ x.d = Store
    /\ Try(VerifyReq(BogusToken, "ip1", "ua1")).r.resp.status \in {400, 429}

\* C15: resend-verification gives the same response for every address:
\* unregistered, registered and unverified, registered and verified.
C15_ResendUniform ==
    \A e1, e2 \in ProbeEmails :
        Try(ResendReq(e1, "ip1", "ua1")).r.resp = Try(ResendReq(e2, "ip1", "ua1")).r.resp

\* The store as the step leaves it.
StoreAfter == [users |-> users', sessions |-> sessions', verifs |-> verifs',
               profiles |-> profiles', acts |-> acts', rng |-> rng',
               users_id_seq |-> users_id_seq']

\* The request whose store call this step is, IdleReq if the step is none.
Stepping ==
    IF \E k \in DOMAIN reqs : ~Free(k) /\ reqs'[k] # reqs[k]
    THEN reqs[CHOOSE k \in DOMAIN reqs : ~Free(k) /\ reqs'[k] # reqs[k]]
    ELSE IdleReq

\* C25: whenever a store call puts a new email token into a verification
\* record that held one, in any interleaving of registrations, verify-email
\* and resend-verification requests, the call is the save of a
\* resend-verification and the token the one it drew, the record no longer
\* holds the token of before, a verify-email with the old token is refused
\* (400, "Invalid email verification token") and changes nothing, and a
\* verify-email with the new token succeeds, marks the record verified and
\* clears its token.
C25_ResendReplacesEmailToken ==
    [][\A i \in 1..Len(verifs) :
          (/\ Len(verifs') = Len(verifs)
           /\ verifs'[i].emailToken # verifs[i].emailToken
           /\ verifs[i].emailToken # NoToken
           /\ verifs'[i].emailToken # NoToken)
          => LET old == Run(StoreAfter, now', VerifyReq(verifs[i].emailToken, "ip1", "ua1"))
                 new == Run(StoreAfter, now', VerifyReq(verifs'[i].emailToken, "ip1", "ua1"))
             IN  /\ ~verifs'[i].emailVerified
                 /\ Stepping.op = "resend"
                 /\ Stepping.newtok = verifs'[i].emailToken
                 /\ old.r.resp.status = 400
                 /\ old.r.resp.error = "Invalid email verification token"
                 /\ old.d = StoreAfter
                 /\ new.r.resp.status = 200
                 /\ new.r.resp.message = MsgEmailVerified
                 /\ new.d.verifs[i].emailVerified
                 /\ new.d.verifs[i].emailToken = NoToken
                 /\ new.d.verifs[i].verifiedAt = now']_vars

\* Resend-verification has just put a new email token into the record of an
\* unverified user.
C25_Witness ==
    /\ ghost.just.op = "resend"
    /\ ghost.just.newtok # NoToken
    /\ \E i \in 1..Len(verifs) :
          verifs[i].emailToken = ghost.just.newtok /\ ~verifs[i].emailVerified

(***************************************************************************)
(* SpecFail: one client and two addresses, where one store call of a       *)
(* request may fail (the database returns an error and writes nothing; a   *)
(* failing INSERT into users may have drawn an ID from the sequence        *)
(* before).                                                                *)
(***************************************************************************)
\* The next store call of the request in place i fails; no request meets
\* more than one failing call.
AdvanceFailing(i) ==
    /\ ~reqs[i].failed
    /\ \E ran \in BOOLEAN : AdvanceWith(i, FALSE, ran)

WorkFailing == \E i \in DOMAIN reqs : AdvanceFailing(i)

FRegister ==
    /\ nops < MaxFailOps
    /\ \E e \in Emails : Register(e, PwStrongA, TimeIP, TimeUA)
FRefresh ==
    /\ nops < MaxFailOps
    /\ \E tok \in SessionTokens(Store) : Refresh(tok, TimeIP, TimeUA)
FForgotPassword ==
    /\ nops < MaxFailOps
    /\ ForgotPassword(TimeEmail, TimeIP, TimeUA)
FResetPassword ==
    /\ nops < MaxFailOps
    /\ \E tok \in ResetInputs : ResetPassword(tok, PwStrongB, PwStrongB, TimeIP, TimeUA)

NextFail ==
    \/ FRegister
    \/ FRefresh
    \/ FForgotPassword
    \/ FResetPassword
    \/ Work
    \/ WorkFailing

InitFail == InitStore({0}) /\ InitRest(MaxInFlight, KeepGhost, NoLog)

SpecFail == InitFail /\ [][NextFail]_vars

\* What the refresh q, served with no other request in flight, has done to
\* the sessions when it answers: it rotated (the old session inactive and
\* one new active session of the same user) or it did nothing (the old
\* session still active, no new session).
RotatedOrUntouched(q) ==
    \/ /\ ~sessions'[q.sid].isActive
       /\ Len(sessions') = q.seen + 1
       /\ sessions'[q.seen + 1].isActive
       /\ sessions'[q.seen + 1].userID = sessions'[q.sid].userID
    \/ /\ sessions'[q.sid].isActive
       /\ Len(sessions') = q.seen

\* C17: rotation is atomic also when a store call fails: every refresh
\* attempt either rotates the session or leaves the sessions untouched.
C17_RotationAtomic ==
    [][\A i \in DOMAIN reqs :
          (/\ reqs[i].op = "refresh" /\ reqs[i].alone /\ reqs[i].sid # 0
           /\ reqs[i].pc # "done" /\ reqs'[i].pc = "done")
          => RotatedOrUntouched(reqs'[i])]_vars

\* C18: when register has answered success, the user, its profile and its
\* verification record with an email token exist; when reset-password has
\* answered success, the reset token is cleared and the sessions the user
\* had are inactive.
C18_NoSuccessAfterPartialFailure ==
    /\ ghost.just.op = "register" =>
          LET id == FindUserByEmail(Store, ghost.just.email)
          IN  /\ id # 0
              /\ \E i \in 1..Len(profiles) : profiles[i] = FmtD(id)
              /\ \E i \in 1..Len(verifs) :
                    verifs[i].userID = FmtD(id) /\ verifs[i].emailToken # NoToken
    /\ ghost.just.op = "reset" =>
          /\ \A i \in 1..Len(verifs) : verifs[i].resetToken # ghost.just.token
          /\ \A tok \in ghost.resetRevoked : ~sessions[SessionOfToken(tok)].isActive

(***************************************************************************)
(* SpecAccess: one account over the lifetime of its access tokens.  The    *)
(* client registers, logs in and calls the protected logout route while    *)
(* time passes; the bearer of a logout is a token it was issued or one     *)
(* made from it without the secret.                                        *)
(***************************************************************************)
MaxAccessOps == 3
AccessTickSteps == {1, 899}

\* What a party without cfg.JWTSecret can make of token tok: altered claims
\* under the old signature, a signature under another key, alg "none", and
\* a non-HMAC alg keyed with material of its own.
Tampered(tok) ==
    {[tok EXCEPT !.exp = @ + AccessTTL],
     [tok EXCEPT !.sub = @ + 1],
     [tok EXCEPT !.sig = SignedString("guess", tok.alg, tok.sub, tok.email,
                                      tok.exp, tok.iat)],
     [tok EXCEPT !.alg = "none", !.sig = <<>>],
     [tok EXCEPT !.alg = "none", !.exp = @ + AccessTTL, !.sig = <<>>],
     [tok EXCEPT !.alg = "RS256",
                 !.sig = SignedString("public", "RS256", tok.sub, tok.email,
                                      tok.exp, tok.iat)]}
Presented == issued \cup UNION {Tampered(tok) : tok \in issued}

ARegister ==
    /\ nops < MaxAccessOps
    /\ Register(TimeEmail, PwStrongA, TimeIP, TimeUA)
ALogin ==
    /\ nops < MaxAccessOps
    /\ Login(TimeEmail, PwStrongA, TimeIP, TimeUA)
ALogout ==
    /\ nops < MaxAccessOps
    /\ \E b \in Presented, all \in BOOLEAN : Logout(b, NoToken, all, TimeIP, TimeUA)
\* GET /profile is registered behind AuthMiddleware alone (main.go:116).
AProfile ==
    /\ nops < MaxAccessOps
    /\ \E b \in Presented : Accept(ProfileReq(b, TimeIP, TimeUA))
ATick == \E dt \in AccessTickSteps : Tick(dt)

NextAccess ==
    \/ ARegister
    \/ ALogin
    \/ ALogout
    \/ AProfile
    \/ ATick
    \/ Work

SpecAccess == Init /\ [][NextAccess]_vars

\* The answer of the protected logout route to bearer b in the current
\* state; Passed tells that AuthMiddleware let the request through (the
\* handler answered 200, or the rate limiter behind AuthMiddleware 429).
ProtectedStatus(b) == Try(LogoutReq(b, NoToken, FALSE, TimeIP, TimeUA)).r.resp.status
Passed(b) == ProtectedStatus(b) \in {200, 429}

\* C21 as stated: an access token issued at time t is accepted at every time
\* up to and including t + 15 minutes and rejected (401) at every later time.
C21_AcceptedThroughExpiry ==
    \A tok \in issued :
        /\ now <= tok.iat + AccessTTL => Passed(tok)
        /\ now > tok.iat + AccessTTL => ProtectedStatus(tok) = 401

\* C21 (amended): an untampered access token issued at time t expires at
\* t + 15 minutes; the protected-endpoint check accepts it at every time
\* strictly before t + 15 minutes and rejects it (401) at t + 15 minutes and
\* at every later time; a token with altered claims, a signature under
\* another key or a non-HMAC algorithm is rejected (401) at every time.
C21_AccessTokenLifetime ==
    \A tok \in issued :
        /\ tok.exp = tok.iat + AccessTTL
        /\ now < tok.iat + AccessTTL =>
              AuthMiddleware(tok, now) /\ Passed(tok)
        /\ now >= tok.iat + AccessTTL =>
              ~AuthMiddleware(tok, now) /\ ProtectedStatus(tok) = 401
        /\ \A f \in Tampered(tok) :
              ~AuthMiddleware(f, now) /\ ProtectedStatus(f) = 401

\* A logout was just accepted while an older token of the account is at the
\* instant of its expiry.
C21_Witness ==
    /\ ghost.just.op = "logout"
    /\ \E tok \in issued : now = tok.exp
    /\ \E tok \in issued : now < tok.exp

(***************************************************************************)
(* SpecWindow: one identity in front of two routes while its window        *)
(* slides; rlog records the decisions of the middleware.                   *)
(***************************************************************************)
MaxWinCalls == 4
MaxWinTicks == 3
WinClient == "ip1"
WinRoutes == {"forgot", "resend"}
WinTickSteps == {1, 599, 3000}

WCall ==
    /\ nops < MaxWinCalls
    /\ \E route \in WinRoutes : Accept(Probe(WinClient, route))
WTick ==
    /\ nticks < MaxWinTicks
    /\ \E dt \in WinTickSteps : Elapse(dt)

NextWindow ==
    \/ WCall
    \/ WTick
    \/ Work

SpecWindow == InitRL /\ [][NextWindow]_vars

\* The recorded timestamps of identity ip that lie inside the window that
\* trails the current time, as positions of its history.
Recent(ip, window) == {i \in 1..Len(rl[ip]) : now - rl[ip][i] < window}
WasDenied == \E k \in 1..Len(rlog.entries) : rlog.entries[k].status = 429

\* C22: a request of an identity to a route made when fewer than limit of
\* the identity's recorded timestamps lie inside the trailing window is
\* admitted and recorded, whatever was denied before; an identity none of
\* whose recorded timestamps lies inside the window is never denied.
C22_AdmissionResumes ==
    \A route \in LimitedRoutes :
        LET x == IsAllowed(rl, WinClient, RouteLimit(route), RouteWindow(route), now)
            recent == Recent(WinClient, RouteWindow(route))
        IN  /\ RouteLimit(route) >= 1
            /\ Cardinality(recent) < RouteLimit(route) =>
                  /\ x.allowed
                  /\ Len(x.m[WinClient]) = Cardinality(recent) + 1
                  /\ x.m[WinClient][Len(x.m[WinClient])] = now
            /\ recent = {} => x.allowed /\ x.m[WinClient] = <<now>>

\* The identity was denied, and its window has slid past every request it
\* had recorded: the history still holds them, none is inside the window.
C22_Witness ==
    /\ WasDenied
    /\ Len(rl[WinClient]) >= RouteLimit("forgot")
    /\ Recent(WinClient, RouteWindow("forgot")) = {}

\* C23: a denied check records nothing: the identity's timestamps after the
\* call are the ones of before that lie inside the window, in their order,
\* the time of the denied request is not added, the other identities are
\* left alone, and a further denied request at any later time of the same
\* second leaves the very same history.
C23_DeniedRecordsNothing ==
    \A route \in LimitedRoutes :
        LET x == IsAllowed(rl, WinClient, RouteLimit(route), RouteWindow(route), now)
            recent == Recent(WinClient, RouteWindow(route))
            kept == x.m[WinClient]
        IN  ~x.allowed =>
              /\ Len(kept) = Cardinality(recent)
              /\ \A j \in 1..Len(kept) :
                    \E i \in recent :
                       /\ kept[j] = rl[WinClient][i]
                       /\ Cardinality({k \in recent : k <= i}) = j
              /\ \A ip \in RLClients \ {WinClient} : x.m[ip] = rl[ip]
              /\ IsAllowed(x.m, WinClient, RouteLimit(route), RouteWindow(route),
                           now) = x

\* The identity was denied at the forgot-password route, whose window is
\* still full, while older timestamps of its history have left the window
\* of the resend route.
C23_Witness ==
    /\ WasDenied
    /\ ~IsAllowed(rl, WinClient, RouteLimit("forgot"), RouteWindow("forgot"), now).allowed
    /\ Cardinality(Recent(WinClient, RouteWindow("resend"))) < Len(rl[WinClient])

(***************************************************************************)
(* SpecChange: passwords set after registration.  Accounts register, log   *)
(* in from two addresses, change their password behind AuthMiddleware, and *)
(* reset it with a token of forgot-password; the next user ID is 1 or      *)
(* 1000000.                                                                *)
(***************************************************************************)
MaxChangeOps == 4

ChangePassword(bearer, cur, new, ip, ua) == Accept(ChangeReq(bearer, cur, new, ip, ua))

CurrentPasswords == {PwStrongA, PwStrongB}

CRegister ==
    /\ nops < MaxChangeOps
    /\ \E p \in RegisterPasswords, ip \in IPs : Register(TimeEmail, p, ip, TimeUA)
CLogin ==
    /\ nops < MaxChangeOps
    /\ \E p \in CurrentPasswords, ip \in IPs : Login(TimeEmail, p, ip, TimeUA)
CChangePassword ==
    /\ nops < MaxChangeOps
    /\ \E b \in issued, cur \in CurrentPasswords, new \in NewPasswords \cup {PwShort},
          ip \in IPs : ChangePassword(b, cur, new, ip, TimeUA)
CForgotPassword ==
    /\ nops < MaxChangeOps
    /\ ForgotPassword(TimeEmail, TimeIP, TimeUA)
CResetPassword ==
    /\ nops < MaxChangeOps
    /\ \E tok \in ResetInputs, p \in NewPasswords \cup {PwShort} :
          ResetPassword(tok, p, p, TimeIP, TimeUA)

NextChange ==
    \/ CRegister
    \/ CLogin
    \/ CChangePassword
    \/ CForgotPassword
    \/ CResetPassword
    \/ Work

SpecChange == InitIDs /\ [][NextChange]_vars

\* C27: a change-password that succeeds stores the hash of the new password,
\* deactivates every active session of the caller that was created from an
\* IP other than the caller's current one and leaves every other session as
\* it was; one that is refused with "Current password is incorrect" changes
\* nothing.
C27_ChangeRevokesOtherIPs ==
    \A b \in issued, cur \in CurrentPasswords, new \in NewPasswords, ip \in IPs :
        LET x == Try(ChangeReq(b, cur, new, ip, TimeUA))
            owned == {i \in 1..Len(sessions) : sessions[i].userID = FmtD(b.sub)}
        IN  /\ x.r.resp.status = 200 =>
                  /\ CompareHashAndPassword(UserRow(x.d, b.sub).password, new)
                  /\ x.d.sessions =
                        WithDeactivated({i \in owned :
                            sessions[i].isActive /\ sessions[i].ip # ip})
            /\ x.r.resp.error = "Current password is incorrect" => x.d = Store

(***************************************************************************)
(* SpecSession: one account over the lifetime of its sessions.  The client *)
(* registers, logs in and refreshes while time passes, and an operator may *)
(* deactivate the account.                                                 *)
(***************************************************************************)
MaxSessionOps == 3
MaxSessionTicks == 2
SessionTickSteps == {1, 604799}

SRegister ==
    /\ nops < MaxSessionOps
    /\ Register(TimeEmail, PwStrongA, TimeIP, TimeUA)
SLogin ==
    /\ nops < MaxSessionOps
    /\ \E p \in LoginPasswords : Login(TimeEmail, p, TimeIP, TimeUA)
SRefresh ==
    /\ nops < MaxSessionOps
    /\ \E tok \in RefreshInputs : Refresh(tok, TimeIP, TimeUA)
SDeactivate ==
    /\ nops < MaxSessionOps
    /\ \E id \in UserIDs(Store) : Deactivate(id)
STick ==
    /\ nticks < MaxSessionTicks
    /\ \E dt \in SessionTickSteps : Elapse(dt)

NextSession ==
    \/ SRegister
    \/ SLogin
    \/ SRefresh
    \/ SDeactivate
    \/ STick
    \/ Work

SpecSession == Init /\ [][NextSession]_vars

\* The user row that owns session s.
OwnerOf(s) == UserRow(Store, ParseKey(s.userID))

\* C28: every session is created with expiry = time of issue + 7 days; a
\* refresh answers 200 with a new token pair only if the session it presents
\* is active, the current time is strictly before the session's expiry and
\* the owning user is active; at the expiry instant and at every later time
\* the refresh fails, returns no token and creates no session.
C28_RefreshOnlyForValidSession ==
    /\ [](\A tok \in SessionTokens(Store) :
            LET x == RefreshOutcome(tok)
                s == sessions[SessionOfToken(tok)]
            IN  /\ x.r.resp.status = 200 =>
                      /\ s.isActive
                      /\ now < s.expiresAt
                      /\ OwnerOf(s).isActive
                      /\ x.r.resp.access # NoAccess
                      /\ x.r.resp.refresh \notin SessionTokens(Store) \cup {NoToken}
                /\ now >= s.expiresAt =>
                      /\ x.r.resp.status \in {401, 429}
                      /\ x.r.resp.access = NoAccess
                      /\ x.r.resp.refresh = NoToken
                      /\ Len(x.d.sessions) = Len(sessions))
    /\ [][\A i \in 1..Len(sessions') :
             i > Len(sessions) => sessions'[i].expiresAt = now + RefreshTTL]_vars

\* A refresh has rotated a session and the new session is at the instant of
\* its expiry, still marked active.
C28_Witness ==
    /\ ghost.rotated # {}
    /\ \E i \in 1..Len(sessions) :
          sessions[i].isActive /\ now = sessions[i].expiresAt

\* C29: a refresh that presents a valid session of a deactivated user is
\* answered 401 "Account is deactivated", returns no token and changes
\* nothing: no session is created and the presented session stays active;
\* a login for a deactivated user is answered 401, creates no session and
\* leaves last-login as it was.
C29_DeactivatedUserRefused ==
    /\ \A tok \in SessionTokens(Store) :
          LET x == RefreshOutcome(tok)
              s == sessions[SessionOfToken(tok)]
          IN  (IsSessionValid(s, now) /\ ~OwnerOf(s).isActive) =>
                  /\ x.r.resp.status \in {401, 429}
                  /\ ~Denied(x) => x.r.resp.error = "Account is deactivated"
                  /\ x.r.resp.access = NoAccess
                  /\ x.r.resp.refresh = NoToken
                  /\ x.d = Store
    /\ \A p \in Passwords :
          IsDeactivatedEmail(TimeEmail) =>
              LET y == Try(LoginReq(TimeEmail, p, TimeIP, TimeUA))
              IN  /\ y.r.resp.status \in {400, 401, 429}
                  /\ BindPassword(p) /\ ~Denied(y) =>
                        y.r.resp.error = "Account is deactivated"
                  /\ y.r.resp.access = NoAccess
                  /\ y.d.sessions = sessions
                  /\ y.d.users = users

\* The account was deactivated after a refresh, and the session that the
\* refresh created is still valid.
C29_Witness ==
    /\ IsDeactivatedEmail(TimeEmail)
    /\ ghost.rotated # {}
    /\ \E i \in 1..Len(sessions) : IsSessionValid(sessions[i], now)

\* C30: in every reachable state, every stored password hash is the hash of
\* a password that satisfies the strength policy (at least 8 characters with
\* an uppercase letter, a lowercase letter, a digit and a special character),
\* whether register, reset-password or change-password stored it.
C30_StoredPasswordsStrong ==
    \A i \in 1..Len(users) :
        \E p \in Passwords :
            /\ users[i].password = GenerateFromPassword(p)
            /\ validatePasswordStrength(p) = ""

(***************************************************************************)
(* SpecRace: requests of one account in flight together.  The account of   *)
(* SpecConc has registered and asked for a password reset; requests of     *)
(* seven routes then arrive side by side and their store calls interleave  *)
(* in every order.                                                         *)
(***************************************************************************)
MaxRaceOps == 2
RaceSlots == DOMAIN reqs
RaceEmail == "a@x.com"
RaceAccess == Founded.r.resp.access
RaceResetToken == FoundedReset.r.newtok
RaceEmailToken == FoundedReset.d.verifs[1].emailToken

InitRace == InitConc

RLogin ==
    /\ nops < MaxRaceOps
    /\ \E p \in LoginPasswords : Login(RaceEmail, p, TimeIP, TimeUA)
RRefresh ==
    /\ nops < MaxRaceOps
    /\ \E tok \in SessionTokens(Founded.d) : Refresh(tok, TimeIP, TimeUA)
RLogout ==
    /\ nops < MaxRaceOps
    /\ Logout(RaceAccess, NoToken, TRUE, TimeIP, TimeUA)
RResetPassword ==
    /\ nops < MaxRaceOps
    /\ ResetPassword(RaceResetToken, PwStrongB, PwStrongB, TimeIP, TimeUA)
RChangePassword ==
    /\ nops < MaxRaceOps
    /\ Accept(ChangeReq(RaceAccess, PwStrongA, PwStrongB, TimeIP, TimeUA))
RVerifyEmail ==
    /\ nops < MaxRaceOps
    /\ Accept(VerifyReq(RaceEmailToken, TimeIP, TimeUA))
RResendVerification ==
    /\ nops < MaxRaceOps
    /\ Accept(ResendReq(RaceEmail, TimeIP, TimeUA))

NextRace ==
    \/ RLogin
    \/ RRefresh
    \/ RLogout
    \/ RResetPassword
    \/ RChangePassword
    \/ RVerifyEmail
    \/ RResendVerification
    \/ Work

SpecRace == InitRace /\ [][NextRace]_vars

Answered(i, op, status) ==
    reqs[i].op = op /\ reqs[i].pc = "done" /\ reqs[i].resp.status = status

\* C31: login never changes a user's password hash: when a login runs next
\* to a change-password or reset-password of the same user, in any
\* interleaving, then from the moment the password change has answered 200
\* the stored hash is the hash of the new password, also after the login
\* has saved the user row for last-login.
C31_LoginKeepsNewHash ==
    \A i, j \in RaceSlots :
        (/\ Answered(i, "reset", 200) \/ Answered(i, "change", 200)
         /\ reqs[j].op = "login")
        => CompareHashAndPassword(UserRow(Store, reqs[i].uid).password, reqs[i].newpw)

\* C32: in every interleaving, no store call of a verify-email or of a
\* resend-verification changes the password-reset token or its expiry of a
\* verification record, and no store call of a reset-password changes the
\* email-verified flag, verified-at or the email token of one.
C32_TokenLifecyclesApart ==
    [][\A i \in RaceSlots :
          reqs'[i] # reqs[i] =>
              \A v \in 1..Len(verifs) :
                  /\ reqs[i].op \in {"verify", "resend"} =>
                        /\ verifs'[v].resetToken = verifs[v].resetToken
                        /\ verifs'[v].resetExpiry = verifs[v].resetExpiry
                  /\ reqs[i].op = "reset" =>
                        /\ verifs'[v].emailVerified = verifs[v].emailVerified
                        /\ verifs'[v].verifiedAt = verifs[v].verifiedAt
                        /\ verifs'[v].emailToken = verifs[v].emailToken]_vars

\* C33: when a refresh runs next to a reset-password or a logout with
\* logout_all of the same user, in any interleaving, then once both have
\* completed the user has no active session (every session of the account
\* stems from a refresh token issued before the revocation began).
C33_RevocationBeatsRefresh ==
    \A i, j \in RaceSlots :
        (/\ reqs[i].op = "refresh" /\ reqs[i].pc = "done"
         /\ Answered(j, "reset", 200) \/ Answered(j, "logout", 200))
        => \A s \in 1..Len(sessions) : ~sessions[s].isActive

\* C34: revocation is permanent: in every interleaving, no step removes a
\* session record, changes its token or owner, or turns its active flag
\* from false to true; a session that is active after a step and was not
\* active before it is a record that the step created.
C34_RevocationPermanent ==
    [][/\ Len(sessions') >= Len(sessions)
       /\ \A s \in 1..Len(sessions) :
             /\ sessions'[s].token = sessions[s].token
             /\ sessions'[s].userID = sessions[s].userID
             /\ ~sessions[s].isActive => ~sessions'[s].isActive]_vars

\* A refresh and a logout_all have both answered 200 side by side: the
\* refresh saved the whole row of a session the logout had deactivated.
C34_Witness ==
    \E i, j \in RaceSlots :
        /\ Answered(i, "refresh", 200)
        /\ Answered(j, "logout", 200)
        /\ ~sessions[reqs[i].sid].isActive

(***************************************************************************)
(* SpecIsolation: two accounts side by side.  Both register from either    *)
(* address, refresh, log out and change their password; the next user ID   *)
(* is 1 or 1000000.                                                        *)
(***************************************************************************)
MaxIsoOps == 3

IRegister ==
    /\ nops < MaxIsoOps
    /\ \E e \in Emails, ip \in IPs : Register(e, PwStrongA, ip, TimeUA)
IRefresh ==
    /\ nops < MaxIsoOps
    /\ \E tok \in SessionTokens(Store), ip \in IPs : Refresh(tok, ip, TimeUA)
ILogout ==
    /\ nops < MaxIsoOps
    /\ \E b \in issued, tok \in {NoToken} \cup SessionTokens(Store),
          all \in BOOLEAN, ip \in IPs : Logout(b, tok, all, ip, TimeUA)
IChangePassword ==
    /\ nops < MaxIsoOps
    /\ \E b \in issued, ip \in IPs :
          ChangePassword(b, PwStrongA, PwStrongB, ip, TimeUA)

NextIsolation ==
    \/ IRegister
    \/ IRefresh
    \/ ILogout
    \/ IChangePassword
    \/ Work

SpecIsolation == InitIDs /\ [][NextIsolation]_vars

\* The sessions that user id does not own are in store d what they are now.
OthersUntouched(d, id) ==
    /\ Len(d.sessions) = Len(sessions)
    /\ \A s \in 1..Len(sessions) :
          sessions[s].userID # FmtD(id) => d.sessions[s] = sessions[s]

\* C35: a logout of user A (with logout_all, with a refresh token, also one
\* of another user, or with neither) and a change-password of user A change
\* no session that another user owns; a refresh that succeeds creates the
\* new session for the owner of the session it consumed and issues the
\* access token to that user.
C35_CrossUserIsolation ==
    /\ \A b \in issued, ip \in IPs :
          /\ \A tok \in {NoToken} \cup SessionTokens(Store), all \in BOOLEAN :
                LET x == Try(LogoutReq(b, tok, all, ip, TimeUA))
                IN  x.r.resp.status \in {200, 429} /\ OthersUntouched(x.d, b.sub)
          /\ \A cur \in CurrentPasswords :
                OthersUntouched(Try(ChangeReq(b, cur, PwStrongB, ip, TimeUA)).d, b.sub)
    /\ \A tok \in SessionTokens(Store) :
          LET x == Try(RefreshReq(tok, TimeIP, TimeUA))
              s == sessions[SessionOfToken(tok)]
          IN  x.r.resp.status = 200 =>
                  /\ Len(x.d.sessions) = Len(sessions) + 1
                  /\ x.d.sessions[Len(sessions) + 1].userID = s.userID
                  /\ x.d.sessions[Len(sessions) + 1].isActive
                  /\ FmtD(x.r.resp.access.sub) = s.userID
                  /\ \A k \in 1..Len(sessions) :
                        k # SessionOfToken(tok) => x.d.sessions[k] = sessions[k]

\* Two users hold an active session each and one of them has just logged
\* out with the refresh token of the other.
C35_Witness ==
    /\ users_id_seq < FloatSciThreshold
    /\ ghost.just.op = "logout"
    /\ ghost.just.token # NoToken
    /\ \E s, u \in 1..Len(sessions) :
          /\ sessions[s].userID # sessions[u].userID
          /\ sessions[s].isActive /\ sessions[u].isActive
          /\ sessions[s].token = ghost.just.token


(***************************************************************************)
(* Repeated refreshes with a token that cannot be used (main.go:405-426).  *)
(***************************************************************************)
\* The tokens of sessions that were rotated or revoked, and what
\* refreshTokenHandler does with token tok on store d after the delay dt.
SpentTokens ==
    {sessions[i].token : i \in {j \in 1..Len(sessions) : ~sessions[j].isActive}}
RefreshRetry(d, tok, dt) == Run(d, now + dt, RefreshReq(tok, TimeIP, TimeUA))

\* C36: repeating a refresh with the same unusable token
\* (naturally expired, rotated or revoked) gives the same error on every
\* attempt, and the second attempt changes no state.
C36_FailedRefreshStable ==
    \A tok \in SpentTokens \cup NaturallyExpired :
        LET first == RefreshRetry(Store, tok, 0)
            second == RefreshRetry(first.d, tok, 0)
        IN  /\ second.r.resp.error = first.r.resp.error
            /\ second.d = first.d

(***************************************************************************)
(* SpecGate: requests pass RateLimitMiddleware before their handler        *)
(* (main.go:93-109, 966-982).  One identity registers an account and calls *)
(* GET /health and GET /, it and a second identity ask for password resets *)
(* of the account, and time passes.  rlog records, for every request in the   *)
(* order of arrival, its route, identity and time, whether the middleware  *)
(* let it through to the handler, and the answer of the middleware if not. *)
(***************************************************************************)
MaxGateCalls == 5
MaxGateTicks == 1
GateEmail == "a@x.com"
GateFounder == "ip1"
GateTickSteps == {3599, 3600}

HealthReq(ip, ua) == NewReq("health", ip, ua)
PumpkinReq(ip, ua) == NewReq("pumpkin", ip, ua)
\* The public routes registered without RateLimitMiddleware.
OpenRoutes == (Routes \ ProtectedRoutes) \ LimitedRoutes

GRegister ==
    /\ nops < MaxGateCalls
    /\ Register(GateEmail, PwStrongA, GateFounder, TimeUA)
GForgotPassword ==
    /\ nops < MaxGateCalls
    /\ \E ip \in RLClients : ForgotPassword(GateEmail, ip, TimeUA)
\* GET /health is registered without RateLimitMiddleware (main.go:109).
GHealth ==
    /\ nops < MaxGateCalls
    /\ Accept(HealthReq(GateFounder, TimeUA))
\* GET / is registered without any middleware (main.go:93).
GPumpkin ==
    /\ nops < MaxGateCalls
    /\ Accept(PumpkinReq(GateFounder, TimeUA))
GTick ==
    /\ nticks < MaxGateTicks
    /\ \E dt \in GateTickSteps : Elapse(dt)

NextGate ==
    \/ GRegister
    \/ GForgotPassword
    \/ GHealth
    \/ GPumpkin
    \/ GTick
    \/ Work

InitGate == InitStore({0}) /\ InitRest(1, KeepGhost, EmptyLog)

SpecGate == InitGate /\ [][NextGate]_vars

\* The first request after request i of the log that the same identity made
\* to a rate-limited route, 0 if there is none.
NextLimited(i) ==
    LET later == {j \in (i + 1)..Len(rlog.entries) :
                    /\ rlog.entries[j].ip = rlog.entries[i].ip
                    /\ rlog.entries[j].route \in LimitedRoutes}
    IN  IF later = {} THEN 0
        ELSE CHOOSE j \in later : \A k \in later : j <= k

\* C37: a request denied with 429 carries retry_after = the route's window
\* in seconds, and when the identity's next request to a rate-limited route
\* goes to the same route retry_after seconds or more after the denial, it
\* is admitted.
C37_RetryAfterSuffices ==
    \A i \in 1..Len(rlog.entries) :
        LET e == rlog.entries[i]
            j == NextLimited(i)
        IN  e.status = 429 =>
              /\ e.retry_after = RouteWindow(e.route)
              /\ (/\ j # 0
                  /\ rlog.entries[j].route = e.route
                  /\ rlog.entries[j].at >= e.at + e.retry_after)
                 => rlog.entries[j].status # 429 /\ rlog.entries[j].ran

\* An identity was denied at a route, and its next request to a rate-limited
\* route went to the same route exactly retry_after seconds after the denial
\* and was admitted.
C37_Witness ==
    \E i \in 1..Len(rlog.entries) :
        /\ rlog.entries[i].status = 429
        /\ NextLimited(i) # 0
        /\ rlog.entries[NextLimited(i)].route = rlog.entries[i].route
        /\ rlog.entries[NextLimited(i)].at =
              rlog.entries[i].at + rlog.entries[i].retry_after
        /\ rlog.entries[NextLimited(i)].ran


\* The request that arrives in this step, and what the step did to the
\* store and to the limiter's history of identity ip.
Arriving == Len(rlog'.entries) = Len(rlog.entries) + 1
JustAnswered == rlog'.entries[Len(rlog'.entries)]
StoreUntouched ==
    /\ users' = users
    /\ sessions' = sessions
    /\ verifs' = verifs
    /\ profiles' = profiles
    /\ acts' = acts
TimesAt(times, t) == Cardinality({k \in 1..Len(times) : times[k] = t})
RecordedNow(ip) ==
    /\ rl'[ip] # <<>>
    /\ rl'[ip][Len(rl'[ip])] = now
    /\ TimesAt(rl'[ip], now) = TimesAt(rl[ip], now) + 1

\* The request in place i arrives in this step and is handed to its handler.
HandedOver(i) == Free(i) /\ reqs'[i].pc \notin {"idle", "done"}

\* C38 (as stated): a request answered 429 does not run its handler and
\* leaves users, sessions, verification records, profiles and activity
\* records as they were; every request to a public endpoint that is handed
\* to its handler was recorded by the rate limiter.
C38_HandlerBehindLimiter ==
    [][/\ Arriving /\ JustAnswered.status = 429 =>
             ~JustAnswered.ran /\ StoreUntouched
       /\ \A i \in DOMAIN reqs :
             HandedOver(i) /\ reqs'[i].op \notin ProtectedRoutes =>
                RecordedNow(reqs'[i].ip)
       /\ ~StoreUntouched => Stepping.resp.status # 429]_vars

\* C38 (amended): a request answered 429 is not handed to its handler, in
\* the step that answers it as in every later step, and leaves users,
\* sessions, verification records, profiles and activity records as they
\* were; every request that is handed to the handler of a public endpoint
\* other than GET /health and GET / was admitted by the rate limiter, which
\* recorded its time in the identity's history; GET /health and GET / hand
\* every request to their handlers without consulting the rate limiter,
\* answer 200 also to an identity whose window is full, and leave the
\* limiter and the store as they were.
C38_HandlerBehindLimiterWhereRegistered ==
    [][/\ Arriving =>
             /\ JustAnswered.at = now
             /\ JustAnswered.status = 429 => ~JustAnswered.ran /\ StoreUntouched
             /\ ~JustAnswered.ran => JustAnswered.status = 429
       /\ \A i \in DOMAIN reqs :
             /\ reqs[i].resp.status = 429 /\ reqs'[i].resp.status = 429 =>
                   reqs'[i].pc = "done"
             /\ HandedOver(i) /\ reqs'[i].op \notin ProtectedRoutes \cup OpenRoutes =>
                   LET x == IsAllowed(rl, reqs'[i].ip, RouteLimit(reqs'[i].op),
                                      RouteWindow(reqs'[i].op), now)
                   IN  /\ reqs'[i].op \in LimitedRoutes
                       /\ Arriving
                       /\ JustAnswered.ran
                       /\ x.allowed
                       /\ rl' = x.m
                       /\ RecordedNow(reqs'[i].ip)
             /\ Free(i) /\ reqs'[i] # reqs[i] /\ reqs'[i].op \in OpenRoutes =>
                   /\ HandedOver(i)
                   /\ rl' = rl
                   /\ rlog' = rlog
                   /\ StoreUntouched
             /\ ~Free(i) /\ reqs[i].op \in OpenRoutes =>
                   /\ reqs'[i].pc # reqs[i].pc =>
                         reqs'[i].pc = "done" /\ reqs'[i].resp.status = 200
                   /\ rl' = rl
                   /\ StoreUntouched
       /\ ~StoreUntouched =>
             /\ ~Arriving
             /\ Stepping.pc \notin {"idle", "done"}
             /\ Stepping.resp.status # 429]_vars

\* The identity that registered the account was denied a password reset
\* that would have changed the store and is still denied it, and GET / has
\* answered that identity in the same second.
C38_Witness ==
    /\ users # <<>>
    /\ rlog.entries # <<>>
    /\ LET e == rlog.entries[Len(rlog.entries)]
       IN  /\ e.route = "forgot" /\ e.status = 429 /\ ~e.ran
           /\ e.ip = GateFounder
           /\ e.at = now
    /\ \E k \in DOMAIN reqs :
          /\ reqs[k].op = "pumpkin" /\ reqs[k].pc = "done"
          /\ reqs[k].ip = GateFounder
          /\ reqs[k].resp.status = 200
    /\ Denied(Try(ForgotReq(GateEmail, GateFounder, TimeUA)))
    /\ Run(Store, now, ForgotReq(GateEmail, GateFounder, TimeUA)).d # Store


(***************************************************************************)
(* What login tells a caller who does not know the password                *)
(* (main.go:316-341).                                                      *)
(***************************************************************************)
WrongPasswordFor(e, p) ==
    /\ FindUserByEmail(Store, e) # 0
    /\ ~CompareHashAndPassword(UserRow(Store, FindUserByEmail(Store, e)).password, p)
LoginOutcome(e, p) == Try(LoginReq(e, p, TimeIP, TimeUA))

\* C39 (as stated): the login response given a wrong password is the same
\* whether the email is unregistered, belongs to an active user or belongs
\* to a deactivated user.
C39_LoginHidesExistence ==
    \A e \in Emails, p \in Passwords :
        WrongPasswordFor(e, p) =>
            LoginOutcome(e, p).r.resp = LoginOutcome(UnregisteredEmail, p).r.resp

\* C39 (amended): given a well-formed wrong password, login answers an
\* unregistered email and the email of an active user alike, with 401
\* "Invalid email or password"; the email of a deactivated user is answered
\* 401 "Account is deactivated", with a wrong password as with the right
\* one, which tells the caller that the account exists.  None of these
\* returns a token or changes the store.
C39_LoginHidesActiveOnly ==
    \A e \in Emails, p \in Passwords :
        (WrongPasswordFor(e, p) /\ BindPassword(p)) =>
            LET w == LoginOutcome(e, p)
                n == LoginOutcome(UnregisteredEmail, p)
            IN  /\ n.r.resp = ErrorResponse(401, "Invalid email or password")
                /\ IsActiveEmail(e) => w.r.resp = n.r.resp
                /\ IsDeactivatedEmail(e) =>
                      /\ w.r.resp = ErrorResponse(401, "Account is deactivated")
                      /\ w.r.resp # n.r.resp
                      /\ \A q \in Passwords :
                            BindPassword(q) => LoginOutcome(e, q).r.resp = w.r.resp
                /\ w.d = Store /\ n.d = Store

\* An account that had logged in was deactivated, and a login with a wrong
\* password is answered for it and for an unregistered email.
C39_Witness ==
    /\ IsDeactivatedEmail(TimeEmail)
    /\ Len(sessions) >= 2
    /\ WrongPasswordFor(TimeEmail, PwStrongB)
    /\ LoginOutcome(TimeEmail, PwStrongB).r.resp.status = 401
    /\ LoginOutcome(UnregisteredEmail, PwStrongB).r.resp.status = 401

====
